---------------------------- MODULE Spec2Model ----------------------------
(***************************************************************************)
(* The process scheduling engine of MTL458-Assignments (Assignment 2):     *)
(* offline FCFS, Round-Robin and MLFQ (offline_schedulers.h) and online    *)
(* SJF and MLFQ (online_schedulers.h), with the burst-time hash table,     *)
(* the tier queues and the child processes the schedulers drive.           *)
(*                                                                         *)
(* Time is counted in milliseconds since t0, the instant the scheduler     *)
(* read the clock at its start, so getCurrentTimeInMilliseconds() - t0 is  *)
(* the variable now.  Arrays are 1-based here and 0-based in the C code.   *)
(***************************************************************************)
EXTENDS Integers, Sequences, FiniteSets, TLC

(************************* bounds of the model ****************************)
\* number of records handed to an offline scheduler
MaxProcs == 2
\* longest running time a child needs, in ms
MaxNeed == 5
\* number of finished runs the burst predictor is fed when it is driven on its own
MaxRuns == 3
\* number of lines the user types into online SJF, and into online MLFQ
MaxLinesSJF == 3
MaxLinesMLFQ == 2
\* number of records an online scheduler takes into its process table
MaxRecords == 4

\* the time that may pass between the non-blocking poll and the stop signal, in ms
Delays == {0, 1}

\* reader threads and writer threads of a lock program (its two arguments)
MaxReaders == 2
MaxWriters == 2
\* the bounded buffer, scaled down: BUFFER_SIZE is 100 in the source (part_002:7)
BUFFER_SIZE == 2
\* numbers in the producer's input file before the closing 0
MaxItems == 4
\* calls of my_malloc and my_free the caller of the allocator makes
MaxHeapCalls == 7
\* greatest capacity K of the Optimal cache, and the number N of accesses
MaxCapacity == 3
MaxAccesses == 5

(*********************** constants of the program *************************)
MOD == 1000000007
HASH_PRIME == 131
NUM_CELLS == 3
HashSeed == 5147
DefaultBurst == 1000
MinBurstInit == 1000000000
BufferSize == 1024
IdleSJF == 10
IdleMLFQ == 1
Newline == 10

\* uint64_t arithmetic wraps; TLC's integers have 32 bits, so the width of
\* the time fields is scaled to 2^30 (every time of the model is far below).
U64 == 2^30
USub(a, b) == (((a - b) % U64) + U64) % U64
UAdd(a, b) == (a + b) % U64

\* A time field that was malloc'ed and never assigned holds Undef; what a read
\* of it yields is any value of Uninit (every time field is unsigned, so Undef
\* is no value a field can hold).
Undef == 0 - 1
Uninit == {0, 5}
Values(x) == IF x = Undef THEN Uninit ELSE {x}

Policies == {"FCFS", "RR", "MLFQ", "SJF", "OMLFQ"}

VARIABLES
    policy,             \* which scheduler function was called
    pc,                 \* position of the scheduler inside its loop
    now,                \* getCurrentTimeInMilliseconds() - t0
    p,                  \* the process table (Process structs)
    child,              \* the OS side of every record: the forked child
    i,                  \* loop index of FCFS / RR, minIndex of SJF
    MLFQ,               \* Queue MLFQ[3]
    Quantum,            \* int Quantum[3] (RR: its single quantum, thrice)
    boostTime,
    current_queue,      \* offline: the sticky cursor; online: the scan index
    cur,                \* the Process* taken from a queue (0 = none)
    remaining_processes,
    last_boost_time,
    hashTable,          \* Cell hashTable[NUM_CELLS]
    stdin,              \* bytes written to standard input and not yet read
    inputBuffer,        \* char inputBuffer[1024], up to its terminating NUL
    typed,              \* number of lines the user has typed so far
    Work,               \* what a command does when run: the (need, code) it may take
    fault,              \* the failure of fork or waitpid the kernel may still give, or gave
    csv,                \* the lines of the result file of the policy
    out,                \* the context-switch lines printed to standard output
    shared              \* the globals of the threaded programs and of the memory units

vars == <<policy, pc, now, p, child, i, MLFQ, Quantum, boostTime, current_queue,
          cur, remaining_processes, last_boost_time, hashTable, stdin, inputBuffer, typed, Work,
          fault, csv, out, shared>>

n == Len(p)

(****************************** Process ***********************************)
\* initializeProcess: every field to its default value
initializeProcess(cmd) ==
    [command |-> cmd, finished |-> FALSE, error |-> FALSE, started |-> FALSE,
     arrival_time |-> 0, start_time |-> 0, context_start_time |-> 0,
     context_end_time |-> 0, completion_time |-> 0, burst_time |-> 0,
     turnaround_time |-> 0, waiting_time |-> 0, response_time |-> 0,
     process_id |-> -1]

\* the record an online scheduler builds for an input line: start_time,
\* context_start_time, context_end_time and completion_time are not assigned
newProcess(cmd, t) ==
    [command |-> cmd, finished |-> FALSE, error |-> FALSE, started |-> FALSE,
     arrival_time |-> t, start_time |-> Undef, context_start_time |-> Undef,
     context_end_time |-> Undef, completion_time |-> Undef, burst_time |-> 0,
     turnaround_time |-> 0, waiting_time |-> 0, response_time |-> 0,
     process_id |-> -1]

\* Terminal that leaves out the Error records
Terminal_finished(r) == r.finished

Terminal(r) == r.finished \/ r.error

(***************************** children ***********************************)
NoChild == [st |-> "none", left |-> 0]

\* a child that runs for d ms: it exits once it has run for as long as it needs
RunFor(c, d) ==
    IF c.st = "running"
    THEN IF c.left <= d THEN [c EXCEPT !.st = "zombie", !.left = 0]
                        ELSE [c EXCEPT !.left = c.left - d]
    ELSE c

RunAll(ch, d) == [k \in DOMAIN ch |-> RunFor(ch[k], d)]

\* kill(pid, SIGSTOP) and kill(pid, SIGCONT)
Stop(c) == IF c.st = "running" THEN [c EXCEPT !.st = "stopped"] ELSE c
Cont(c) == IF c.st = "stopped" THEN [c EXCEPT !.st = "running"] ELSE c

\* fork: the child starts running and needs `need` ms of running time
Fork(need) == [st |-> "running", left |-> need]

(************************* failing system calls ***************************)
\* fork and waitpid may fail.  A run has at most one such failure: `armed` says
\* that it may still happen; once it has happened, `kind` is the call that failed
\* ("fork" or "wait") and `rec` the record the call was made for.
NoFault == [armed |-> FALSE, kind |-> "none", rec |-> 0]
Armed == [armed |-> TRUE, kind |-> "none", rec |-> 0]
Failed(kind, x) == [armed |-> FALSE, kind |-> kind, rec |-> x]

\* what a command may do: the running times it may need, the exit codes it may give
\* (a child may exit at once, before, at or just after the end of a quantum, or late)
Needs == {0, 1, 2, MaxNeed}
AnyWork == [need |-> Needs, code |-> {0, 1}]
\* a scheduler that blocks in waitpid sees of a child only how long it ran and its code
BlockingWork == [need |-> {1, MaxNeed}, code |-> {0, 1}]
\* parseCommand: the tokens of a command, which are its runs of bytes other than
\* space and tab (the array it returns ends with NULL and is never NULL itself
\* unless an allocation fails)
Space == 32
Tab == 9
RECURSIVE tokensFrom(_, _, _)
tokensFrom(input, token, tokens) ==
    IF input = <<>>
    THEN IF token = <<>> THEN tokens ELSE Append(tokens, token)
    ELSE IF Head(input) = Space \/ Head(input) = Tab
    THEN IF token = <<>> THEN tokensFrom(Tail(input), <<>>, tokens)
         ELSE tokensFrom(Tail(input), <<>>, Append(tokens, token))
    ELSE tokensFrom(Tail(input), Append(token, Head(input)), tokens)
parseCommand(input) == tokensFrom(input, <<>>, <<>>)

\* the wait status of a child killed by SIGSEGV (signal 11, core dumped): for it
\* WIFEXITED is false
KilledBySegv == 139
\* execvp(tokens[0], tokens) with tokens[0] == NULL, a null pointer for an argument
\* that must not be null: the C library reads through it and the child is killed, or
\* the call returns -1 and the child prints its message and calls exit(1)
NullFile == [need |-> {0}, code |-> {1, KilledBySegv}]
\* the child branch of executeProcess: execvp of the first token; a program the
\* environment does not know fails in execvp: exit(1) at once
WorkOf(cmd) ==
    IF parseCommand(cmd) = <<>> THEN NullFile
    ELSE IF parseCommand(cmd)[1] \in DOMAIN Work THEN Work[parseCommand(cmd)[1]]
    ELSE [need |-> {0}, code |-> {1}]

\* int pid = fork(): the child's pid (the index of its record) and the running time
\* the child needs, or -1
forkOutcomes(x) ==
    {[pid |-> x, need |-> w] : w \in WorkOf(p[x].command).need}
       \cup (IF fault.armed THEN {[pid |-> -1, need |-> 0]} ELSE {})

(************************ process exec utils ******************************)
\* executeProcess, parent branch (pid > 0), and the failed fork (pid < 0)
executeProcess(r, pid, t) ==
    IF pid < 0 THEN r
    ELSE [r EXCEPT !.process_id = pid, !.started = TRUE,
                   !.start_time = t, !.context_start_time = t]

\* pauseProcess that assigns the slice to burst_time instead of adding it
pauseProcess_assign(r, t) ==
    IF r.started = FALSE \/ r.finished = TRUE THEN r
    ELSE [r EXCEPT !.context_end_time = t,
                   !.burst_time = USub(t, r.context_start_time)]

pauseProcess(r, t) ==
    IF r.started = FALSE \/ r.finished = TRUE THEN r
    ELSE [r EXCEPT !.context_end_time = t,
                   !.burst_time = UAdd(r.burst_time, USub(t, r.context_start_time))]

resumeProcess(r, t) ==
    IF r.started = FALSE \/ r.finished = TRUE THEN r
    ELSE [r EXCEPT !.context_start_time = t]

\* finishFCFS that records a response time of 0
finishFCFS_zero(r, t) ==
    LET a == [r EXCEPT !.finished = TRUE, !.completion_time = t, !.context_end_time = t]
        b == [a EXCEPT !.burst_time = USub(a.completion_time, a.start_time)]
        c == [b EXCEPT !.turnaround_time = USub(b.completion_time, b.arrival_time)]
        d == [c EXCEPT !.waiting_time = USub(c.turnaround_time, c.burst_time)]
    IN  [d EXCEPT !.response_time = 0]

\* the "no error" branch of FCFS: burst_time is completion_time - start_time
finishFCFS(r, t) ==
    LET a == [r EXCEPT !.finished = TRUE, !.completion_time = t, !.context_end_time = t]
        b == [a EXCEPT !.burst_time = USub(a.completion_time, a.start_time)]
        c == [b EXCEPT !.turnaround_time = USub(b.completion_time, b.arrival_time)]
        d == [c EXCEPT !.waiting_time = USub(c.turnaround_time, c.burst_time)]
    IN  [d EXCEPT !.response_time = USub(d.start_time, d.arrival_time)]

\* the "no error" branch of online SJF: burst_time is assigned
finishBlocking(r, t) ==
    LET a == [r EXCEPT !.finished = TRUE, !.completion_time = t, !.context_end_time = t]
        b == [a EXCEPT !.burst_time = USub(a.context_end_time, a.context_start_time)]
        c == [b EXCEPT !.turnaround_time = USub(b.completion_time, b.arrival_time)]
        d == [c EXCEPT !.waiting_time = USub(c.turnaround_time, c.burst_time)]
    IN  [d EXCEPT !.response_time = USub(d.start_time, d.arrival_time)]

\* the error branch of FCFS and of online SJF: burst_time is assigned
errorBlocking(r, t) ==
    LET a == [r EXCEPT !.error = TRUE, !.context_end_time = t]
        b == [a EXCEPT !.burst_time = USub(a.context_end_time, a.context_start_time)]
    IN  [b EXCEPT !.response_time = USub(b.start_time, b.arrival_time)]

\* finishSliced with the waiting time taken before the last slice is added to the burst
finishSliced_stale(r, t) ==
    LET a == [r EXCEPT !.finished = TRUE, !.completion_time = t, !.context_end_time = t]
        b == [a EXCEPT !.burst_time =
                  UAdd(a.burst_time, USub(a.context_end_time, a.context_start_time))]
        c == [b EXCEPT !.turnaround_time = USub(b.completion_time, b.arrival_time)]
        d == [c EXCEPT !.waiting_time = USub(c.turnaround_time, a.burst_time)]
    IN  [d EXCEPT !.response_time = USub(d.start_time, d.arrival_time)]

\* the "no error" branch of RR and of both MLFQ: burst_time is accumulated
finishSliced(r, t) ==
    LET a == [r EXCEPT !.finished = TRUE, !.completion_time = t, !.context_end_time = t]
        b == [a EXCEPT !.burst_time =
                  UAdd(a.burst_time, USub(a.context_end_time, a.context_start_time))]
        c == [b EXCEPT !.turnaround_time = USub(b.completion_time, b.arrival_time)]
        d == [c EXCEPT !.waiting_time = USub(c.turnaround_time, c.burst_time)]
    IN  [d EXCEPT !.response_time = USub(d.start_time, d.arrival_time)]

\* errorSliced that also stamps the completion time
errorSliced_completed(r, t) ==
    LET a == [r EXCEPT !.error = TRUE, !.context_end_time = t, !.completion_time = t]
    IN  [a EXCEPT !.response_time = USub(a.start_time, a.arrival_time)]

\* the error branch of RR and of both MLFQ
errorSliced(r, t) ==
    LET a == [r EXCEPT !.error = TRUE, !.context_end_time = t]
    IN  [a EXCEPT !.response_time = USub(a.start_time, a.arrival_time)]


(******************************* waitpid **********************************)
\* the children that have exited and are not yet waited for, and those still there
zombies(ch) == {k \in DOMAIN ch : ch[k].st = "zombie"}
running(ch) == {k \in DOMAIN ch : ch[k].st = "running"}
stopped(ch) == {k \in DOMAIN ch : ch[k].st = "stopped"}

\* the exit of child k reported to the caller: k is reaped, status is its exit code
reap(ch, k) ==
    {[result |-> k, status |-> c, elapsed |-> 0,
      child |-> [ch EXCEPT ![k].st = "reaped"]] : c \in WorkOf(p[k].command).code}

\* the least running time after which a running child has exited
RECURSIVE firstExit(_, _)
firstExit(ch, d) ==
    IF \E k \in running(ch) : ch[k].left <= d THEN d ELSE firstExit(ch, d + 1)

\* the call fails (returns -1) without a look at any child
waitpidFails(ch) ==
    IF fault.armed THEN {[result |-> -1, status |-> 0, elapsed |-> 0, child |-> ch]}
    ELSE {}

\* waitpid(pid, &status, WNOHANG): the outcomes the kernel can give.
\* result > 0: the child was a zombie and is reaped, status is its exit code;
\* result = 0: the child exists and has not exited; result < 0: no such child.
\* pid = -1 (the process_id of a record that was never forked) stands for any child.
waitpidNoHang(ch, pid, codes) ==
    waitpidFails(ch) \cup
    (IF pid = -1
     THEN IF zombies(ch) # {} THEN UNION {reap(ch, k) : k \in zombies(ch)}
          ELSE IF running(ch) \cup stopped(ch) # {}
          THEN {[result |-> 0, status |-> 0, elapsed |-> 0, child |-> ch]}
          ELSE {[result |-> -1, status |-> 0, elapsed |-> 0, child |-> ch]}
     ELSE IF pid \in DOMAIN ch /\ ch[pid].st = "zombie"
     THEN {[result |-> pid, status |-> c, elapsed |-> 0,
            child |-> [ch EXCEPT ![pid].st = "reaped"]] : c \in codes}
     ELSE IF pid \in DOMAIN ch /\ ch[pid].st \in {"running", "stopped"}
     THEN {[result |-> 0, status |-> 0, elapsed |-> 0, child |-> ch]}
     ELSE {[result |-> -1, status |-> 0, elapsed |-> 0, child |-> ch]})

\* waitpid(pid, &status, 0): blocks until the child has exited; elapsed is the
\* time the scheduler spent blocked, during which every running child runs
\* (no outcome: the call never returns)
waitpidBlocking(ch, pid, codes) ==
    waitpidFails(ch) \cup
    (IF pid = -1
     THEN IF zombies(ch) # {} THEN UNION {reap(ch, k) : k \in zombies(ch)}
          ELSE IF running(ch) # {}
          THEN LET d  == firstExit(ch, 0)
                   c2 == RunAll(ch, d)
               IN  UNION {{[o EXCEPT !.elapsed = d] : o \in reap(c2, k)} : k \in zombies(c2)}
          ELSE IF stopped(ch) # {} THEN {}
          ELSE {[result |-> -1, status |-> 0, elapsed |-> 0, child |-> ch]}
     ELSE IF pid \in DOMAIN ch /\ ch[pid].st \in {"running", "zombie"}
     THEN LET d  == ch[pid].left
              c2 == RunAll(ch, d)
          IN  {[result |-> pid, status |-> c, elapsed |-> d,
                child |-> [c2 EXCEPT ![pid].st = "reaped"]] : c \in codes}
     ELSE IF pid \in DOMAIN ch /\ ch[pid].st = "stopped"
     THEN {}
     ELSE {[result |-> -1, status |-> 0, elapsed |-> 0, child |-> ch]})

\* the failure a call of waitpid for record x leaves behind, if it was one
waitFault(o, x) == IF o.result < 0 /\ fault.armed THEN Failed("wait", x) ELSE fault

\* WIFEXITED(status) && WEXITSTATUS(status) == 0
ExitedZero(status) == status = 0

(******************************** output **********************************)
Header == "Command, Finished, Error, Burst Time (in ms), Turnaround Time (in ms), Waiting Time (in ms), Response Time (in ms)"

\* what the result file may hold when a scheduler starts: nothing, or an earlier run
PriorFiles == {<<>>, <<Header, "a, Yes, No, 1, 1, 0, 0">>}

\* writeHeaderToCSV: fopen(filename, "w") empties the file, then the header line
writeHeaderToCSV(file) == <<Header>>

\* the line writeProcessToCSV prints for a record
csvRow(r) ==
    [command |-> r.command, finished |-> r.finished, error |-> r.error,
     burst_time |-> r.burst_time, turnaround_time |-> r.turnaround_time,
     waiting_time |-> r.waiting_time, response_time |-> r.response_time]

\* writeProcessToCSV that opens the file with "w": the line replaces the file
writeProcessToCSV_truncate(file, r) == <<csvRow(r)>>

\* writeProcessToCSV: fopen(filename, "a"), one line
writeProcessToCSV(file, r) == Append(file, csvRow(r))

\* printf("%s|%lu|%lu\n", command, context_start_time, context_end_time)
contextSwitch(r) ==
    [command |-> r.command, start |-> r.context_start_time, end |-> r.context_end_time]

(********************************* Queue **********************************)
EmptyQueues == [t \in 0..2 |-> <<>>]
\* enqueue that links the record twice
enqueue_twice(q, x) == Append(Append(q, x), x)
\* enqueue: the record is linked behind the tail
enqueue(q, x) == Append(q, x)
\* dequeue: the head (0 for NULL) and the queue left
dequeueHead(q) == IF q = <<>> THEN 0 ELSE Head(q)
dequeueRest(q) == IF q = <<>> THEN q ELSE Tail(q)

\* the schedulers have none of the globals of the other programs
NoShared == <<>>

unusedOffline ==
    /\ hashTable = [c \in 0..2 |-> [head |-> <<>>, size |-> 0]]
    /\ stdin = <<>>
    /\ inputBuffer = <<>>
    /\ typed = 0

KnownCommands == {<<c>> : c \in 97..122}

\* the Process p[] array a caller hands to an offline scheduler
OfflineInput(m) == [k \in 1..m |-> [command |-> <<96 + k>>]]

(********************************* FCFS ***********************************)
StartFCFS(f) ==
    /\ policy = "FCFS"
    /\ pc = "loop"
    /\ now = 0
    /\ \E m \in 1..MaxProcs :
          /\ p = [k \in 1..m |-> initializeProcess(OfflineInput(m)[k].command)]
          /\ child = [k \in 1..m |-> NoChild]
    /\ i = 1
    /\ MLFQ = EmptyQueues
    /\ Quantum = [t \in 0..2 |-> 0]
    /\ boostTime = 0
    /\ current_queue = 0
    /\ cur = 0
    /\ remaining_processes = 0
    /\ last_boost_time = 0
    /\ unusedOffline
    /\ Work = [c \in KnownCommands |-> AnyWork]
    /\ \E old \in PriorFiles : csv = writeHeaderToCSV(old)
    /\ out = <<>>
    /\ fault = f
    /\ shared = NoShared

\* every fork and every waitpid of the run does what it is asked to
InitFCFS == StartFCFS(NoFault)

\* executeProcess(&p[x], t0) with the fork it makes
Execute(x) ==
    \E f \in forkOutcomes(x) :
       /\ p' = [p EXCEPT ![x] = executeProcess(p[x], f.pid, now)]
       /\ child' = IF f.pid < 0 THEN child ELSE [child EXCEPT ![x] = Fork(f.need)]
       /\ fault' = IF f.pid < 0 THEN Failed("fork", x) ELSE fault

\* resumeProcess(&p[x], t0) with the SIGCONT it sends
Resume(x) ==
    /\ p' = [p EXCEPT ![x] = resumeProcess(p[x], now)]
    /\ child' = [child EXCEPT ![x] = Cont(child[x])]
    /\ fault' = fault

\* for (i ...) { executeProcess(&p[i], t0);
FCFS_Dispatch ==
    /\ policy = "FCFS" /\ pc = "loop"
    /\ Execute(i)
    /\ pc' = "wait"
    /\ UNCHANGED <<policy, now, i, MLFQ, Quantum, boostTime, current_queue, cur,
                   remaining_processes, last_boost_time, hashTable, stdin, inputBuffer, typed, Work,
                   csv, out>>
    /\ UNCHANGED shared

\* FCFS_Wait with a waitpid that does not block (WNOHANG): a child still running
\* is left behind and the loop moves on
FCFS_Wait_nohang ==
    /\ policy = "FCFS" /\ pc = "wait"
    /\ \E o \in waitpidNoHang(child, p[i].process_id, WorkOf(p[i].command).code) :
          /\ child' = o.child
          /\ now' = now
          /\ fault' = waitFault(o, i)
          /\ IF o.result <= 0
             THEN \* continue
                  UNCHANGED <<p, csv, out>>
             ELSE /\ p' = IF ExitedZero(o.status)
                          THEN [p EXCEPT ![i] = finishFCFS(p[i], now')]
                          ELSE [p EXCEPT ![i] = errorBlocking(p[i], now')]
                  /\ csv' = writeProcessToCSV(csv, p'[i])
                  /\ out' = Append(out, contextSwitch(p'[i]))
    /\ i' = i + 1
    /\ pc' = IF i' > n THEN "done" ELSE "loop"
    /\ UNCHANGED <<policy, MLFQ, Quantum, boostTime, current_queue, cur,
                   remaining_processes, last_boost_time, hashTable, stdin, inputBuffer, typed, Work>>
    /\ UNCHANGED shared

\* ... waitpid(p[i].process_id, &status, 0); the two branches; i++ }
FCFS_Wait ==
    /\ policy = "FCFS" /\ pc = "wait"
    /\ \E o \in waitpidBlocking(child, p[i].process_id, WorkOf(p[i].command).code) :
          /\ child' = o.child
          /\ now' = now + o.elapsed
          /\ fault' = waitFault(o, i)
          /\ IF o.result < 0
             THEN \* continue
                  UNCHANGED <<p, csv, out>>
             ELSE /\ p' = IF ExitedZero(o.status)
                          THEN [p EXCEPT ![i] = finishFCFS(p[i], now')]
                          ELSE [p EXCEPT ![i] = errorBlocking(p[i], now')]
                  /\ csv' = writeProcessToCSV(csv, p'[i])
                  /\ out' = Append(out, contextSwitch(p'[i]))
    /\ i' = i + 1
    /\ pc' = IF i' > n THEN "done" ELSE "loop"
    /\ UNCHANGED <<policy, MLFQ, Quantum, boostTime, current_queue, cur,
                   remaining_processes, last_boost_time, hashTable, stdin, inputBuffer, typed, Work>>
    /\ UNCHANGED shared

NextFCFS == FCFS_Dispatch \/ FCFS_Wait

(****************************** Round Robin *******************************)
\* the quantum a caller hands to RoundRobin, in ms
QuantumValues == {1, 2}

StartRR(f) ==
    /\ policy = "RR"
    /\ pc = "loop"
    /\ now = 0
    /\ \E m \in 1..MaxProcs :
          /\ p = [k \in 1..m |-> initializeProcess(OfflineInput(m)[k].command)]
          /\ child = [k \in 1..m |-> NoChild]
          /\ remaining_processes = m
    /\ i = 1
    /\ MLFQ = EmptyQueues
    /\ \E q \in QuantumValues : Quantum = [t \in 0..2 |-> q]
    /\ boostTime = 0
    /\ current_queue = 0
    /\ cur = 0
    /\ last_boost_time = 0
    /\ unusedOffline
    /\ Work = [c \in KnownCommands |-> AnyWork]
    /\ \E old \in PriorFiles : csv = writeHeaderToCSV(old)
    /\ out = <<>>
    /\ fault = f
    /\ shared = NoShared

\* every fork and every waitpid of the run does what it is asked to
InitRR == StartRR(NoFault)

\* NextIndex that steps over a record: i = (i + 2) % n
NextIndex_two(k) == ((k + 1) % n) + 1

\* i = (i + 1) % n, on 1-based indices
NextIndex(k) == (k % n) + 1

\* if (p[i].finished == true || p[i].error == true) { i = (i + 1) % n; continue; }
RR_Skip ==
    /\ policy = "RR" /\ pc = "loop"
    /\ Terminal(p[i])
    /\ i' = NextIndex(i)
    /\ UNCHANGED <<policy, pc, now, p, child, MLFQ, Quantum, boostTime, current_queue,
                   cur, remaining_processes, last_boost_time, hashTable, stdin, inputBuffer, typed, Work,
                   fault, csv, out>>
    /\ UNCHANGED shared

\* executeProcess if not started, resumeProcess otherwise
RR_Dispatch ==
    /\ policy = "RR" /\ pc = "loop"
    /\ ~Terminal(p[i])
    /\ IF p[i].started = FALSE THEN Execute(i) ELSE Resume(i)
    /\ pc' = "poll"
    /\ UNCHANGED <<policy, now, i, MLFQ, Quantum, boostTime, current_queue, cur,
                   remaining_processes, last_boost_time, hashTable, stdin, inputBuffer, typed, Work,
                   csv, out>>
    /\ UNCHANGED shared

\* usleep(quantum * 1000); waitpid(WNOHANG); pause, or finish / error; i = (i + 1) % n
RR_Poll ==
    /\ policy = "RR" /\ pc = "poll"
    /\ LET t1  == now + Quantum[0]
           ch1 == RunAll(child, Quantum[0])
       IN  \E o \in waitpidNoHang(ch1, p[i].process_id, WorkOf(p[i].command).code) :
             /\ fault' = waitFault(o, i)
             /\ IF o.result < 0
                THEN \* break
                     /\ now' = t1 /\ child' = o.child /\ pc' = "done"
                     /\ UNCHANGED <<p, i, remaining_processes, csv, out>>
                ELSE IF o.result = 0
                THEN \E r \in Delays :
                        LET ch2 == RunAll(o.child, r) IN
                        /\ now' = t1 + r
                        /\ p' = [p EXCEPT ![i] = pauseProcess(p[i], now')]
                        /\ child' = IF p[i].started THEN [ch2 EXCEPT ![i] = Stop(ch2[i])] ELSE ch2
                        /\ out' = Append(out, contextSwitch(p'[i]))
                        /\ i' = NextIndex(i)
                        /\ pc' = "loop"
                        /\ UNCHANGED <<remaining_processes, csv>>
                ELSE /\ now' = t1
                     /\ child' = o.child
                     /\ p' = IF ExitedZero(o.status)
                             THEN [p EXCEPT ![i] = finishSliced(p[i], now')]
                             ELSE [p EXCEPT ![i] = errorSliced(p[i], now')]
                     /\ remaining_processes' = remaining_processes - 1
                     /\ csv' = writeProcessToCSV(csv, p'[i])
                     /\ out' = Append(out, contextSwitch(p'[i]))
                     /\ i' = NextIndex(i)
                     /\ pc' = IF remaining_processes' > 0 THEN "loop" ELSE "done"
    /\ UNCHANGED <<policy, MLFQ, Quantum, boostTime, current_queue, cur,
                   last_boost_time, hashTable, stdin, inputBuffer, typed, Work>>
    /\ UNCHANGED shared

NextRR == RR_Skip \/ RR_Dispatch \/ RR_Poll

(***************************** offline MLFQ ********************************)
\* the quanta and the boost interval a caller hands to MultiLevelFeedbackQueue, in
\* ms: increasing quanta as intended, and quanta in another order (not validated)
MkQuantum(q0, q1, q2) == [t \in 0..2 |-> IF t = 0 THEN q0 ELSE IF t = 1 THEN q1 ELSE q2]
QuantumConfigs == {MkQuantum(1, 2, 3), MkQuantum(2, 1, 1)}
BoostValues == {5}

StartMLFQ(f) ==
    /\ policy = "MLFQ"
    /\ pc = "loop"
    /\ now = 0
    /\ \E m \in 1..MaxProcs :
          /\ p = [k \in 1..m |-> initializeProcess(OfflineInput(m)[k].command)]
          /\ child = [k \in 1..m |-> NoChild]
          /\ remaining_processes = m
          \* enqueue all processes to high priority queue
          /\ MLFQ = [t \in 0..2 |-> IF t = 0 THEN [k \in 1..m |-> k] ELSE <<>>]
    /\ i = 0
    /\ Quantum \in QuantumConfigs
    /\ boostTime \in BoostValues
    /\ current_queue = 0
    /\ cur = 0
    /\ last_boost_time = 0
    /\ unusedOffline
    /\ Work = [c \in KnownCommands |-> AnyWork]
    /\ \E old \in PriorFiles : csv = writeHeaderToCSV(old)
    /\ out = <<>>
    /\ fault = f
    /\ shared = NoShared

\* every fork and every waitpid of the run does what it is asked to
InitMLFQ == StartMLFQ(NoFault)

\* demote that drops the preempted record: it is in no tier afterwards
demote_lost(Q, t, x) == Q

\* demote that puts a preempted record back into the tier it came from
demote_same(Q, t, x) == [Q EXCEPT ![t] = enqueue(Q[t], x)]

\* the demotion of a preempted record: enqueue(&MLFQ[i + 1], p), or MLFQ[i] at the floor
demote(Q, t, x) ==
    IF t < 2 THEN [Q EXCEPT ![t + 1] = enqueue(Q[t + 1], x)]
             ELSE [Q EXCEPT ![t] = enqueue(Q[t], x)]

\* while (p != NULL) { enqueue(&MLFQ[0], p); p = dequeue(&MLFQ[t]); }
RECURSIVE drain(_, _)
drain(Q, t) ==
    IF dequeueHead(Q[t]) = 0 THEN Q
    ELSE drain([Q EXCEPT ![0] = enqueue(Q[0], dequeueHead(Q[t])),
                         ![t] = dequeueRest(Q[t])], t)

\* boost that moves no record
boost_none(Q) == Q

\* boost that drains tier 2 before tier 1
boost_reversed(Q) == drain(drain(Q, 2), 1)

\* for (int i = 1; i < 3; i++) drain tier i into tier 0
boost(Q) == drain(drain(Q, 1), 2)

\* boostDue that is true at every check
boostDue_always(t, last, interval) == USub(t, last) >= 0

\* if (now - last_boost_time >= boostTime)
boostDue(t, last, interval) == USub(t, last) >= interval

\* Process *p = dequeue(&MLFQ[current_queue]); if (p == NULL) advance the cursor
MLFQ_Advance ==
    /\ policy = "MLFQ" /\ pc = "loop"
    /\ dequeueHead(MLFQ[current_queue]) = 0
    /\ current_queue' = (current_queue + 1) % 3
    /\ UNCHANGED <<policy, pc, now, p, child, i, MLFQ, Quantum, boostTime, cur,
                   remaining_processes, last_boost_time, hashTable, stdin,
                   inputBuffer, typed, Work,
                   fault, csv, out>>
    /\ UNCHANGED shared

\* the record dequeued: skipped if terminal, executed if new, resumed otherwise
MLFQ_Dispatch ==
    /\ policy = "MLFQ" /\ pc = "loop"
    /\ dequeueHead(MLFQ[current_queue]) # 0
    /\ LET x == dequeueHead(MLFQ[current_queue]) IN
       /\ MLFQ' = [MLFQ EXCEPT ![current_queue] = dequeueRest(MLFQ[current_queue])]
       /\ IF Terminal(p[x])
          THEN UNCHANGED <<p, child, cur, pc, fault>>
          ELSE /\ cur' = x
               /\ pc' = "poll"
               /\ IF p[x].started = FALSE THEN Execute(x) ELSE Resume(x)
    /\ UNCHANGED <<policy, now, i, Quantum, boostTime, current_queue,
                   remaining_processes, last_boost_time, hashTable, stdin,
                   inputBuffer, typed, Work, csv, out>>
    /\ UNCHANGED shared

\* usleep(Quantum[current_queue] * 1000); waitpid(WNOHANG); pause and demote,
\* or finish / error
MLFQ_Poll ==
    /\ policy = "MLFQ" /\ pc = "poll"
    /\ LET t1  == now + Quantum[current_queue]
           ch1 == RunAll(child, Quantum[current_queue])
       IN  \E o \in waitpidNoHang(ch1, p[cur].process_id, WorkOf(p[cur].command).code) :
             /\ fault' = waitFault(o, cur)
             /\ IF o.result < 0
                THEN \* break
                     /\ now' = t1 /\ child' = o.child /\ pc' = "done"
                     /\ UNCHANGED <<p, MLFQ, remaining_processes, csv, out>>
                ELSE IF o.result = 0
                THEN \E r \in Delays :
                        LET ch2 == RunAll(o.child, r) IN
                        /\ now' = t1 + r
                        /\ p' = [p EXCEPT ![cur] = pauseProcess(p[cur], now')]
                        /\ child' = IF p[cur].started THEN [ch2 EXCEPT ![cur] = Stop(ch2[cur])]
                                     ELSE ch2
                        /\ MLFQ' = demote(MLFQ, current_queue, cur)
                        /\ out' = Append(out, contextSwitch(p'[cur]))
                        /\ pc' = "boost"
                        /\ UNCHANGED <<remaining_processes, csv>>
                ELSE /\ now' = t1
                     /\ child' = o.child
                     /\ p' = IF ExitedZero(o.status)
                             THEN [p EXCEPT ![cur] = finishSliced(p[cur], now')]
                             ELSE [p EXCEPT ![cur] = errorSliced(p[cur], now')]
                     /\ remaining_processes' = remaining_processes - 1
                     /\ csv' = writeProcessToCSV(csv, p'[cur])
                     /\ out' = Append(out, contextSwitch(p'[cur]))
                     /\ pc' = "boost"
                     /\ UNCHANGED MLFQ
    /\ UNCHANGED <<policy, i, Quantum, boostTime, current_queue, cur,
                   last_boost_time, hashTable, stdin, inputBuffer, typed, Work>>
    /\ UNCHANGED shared

\* the boost check that ends every iteration, then the loop test
MLFQ_Boost ==
    /\ policy = "MLFQ" /\ pc = "boost"
    /\ IF boostDue(now, last_boost_time, boostTime)
       THEN /\ last_boost_time' = now
            /\ MLFQ' = boost(MLFQ)
       ELSE UNCHANGED <<last_boost_time, MLFQ>>
    /\ pc' = IF remaining_processes > 0 THEN "loop" ELSE "done"
    /\ UNCHANGED <<policy, now, p, child, i, Quantum, boostTime, current_queue, cur,
                   remaining_processes, hashTable, stdin, inputBuffer, typed, Work,
                   fault, csv, out>>
    /\ UNCHANGED shared

NextMLFQ == MLFQ_Advance \/ MLFQ_Dispatch \/ MLFQ_Poll \/ MLFQ_Boost

(***************************** BurstPredictor ******************************)
\* (a * b) % MOD by doubling, so that no intermediate value leaves 32 bits
RECURSIVE MulMod(_, _)
MulMod(a, b) ==
    IF b = 0 THEN 0
    ELSE (((2 * MulMod(a, b \div 2)) % MOD) + (IF b % 2 = 1 THEN a ELSE 0)) % MOD

\* sum = 5147; for (i = strlen - 1; i >= 0; i--) sum = (sum * HASH_PRIME + command[i]) % MOD
RECURSIVE hashFrom(_, _, _)
hashFrom(command, k, sum) ==
    \* (sum < 0 never holds: the test makes TLC evaluate sum at every step)
    IF k < 1 \/ sum < 0 THEN sum
    ELSE hashFrom(command, k - 1, (MulMod(sum, HASH_PRIME) + command[k]) % MOD)

hashFunction(command) == hashFrom(command, Len(command), HashSeed)

\* &hashTable[hash % NUM_CELLS]
cellOf(command) == hashFunction(command) % NUM_CELLS

EmptyTable == [c \in 0..(NUM_CELLS - 1) |-> [head |-> <<>>, size |-> 0]]

\* the walk along the bucket's list: the position of the node, 0 for NULL
RECURSIVE walk(_, _, _)
walk(list, k, command) ==
    IF k > Len(list) THEN 0
    ELSE IF list[k].command = command THEN k
    ELSE walk(list, k + 1, command)

findNode(ht, command) ==
    LET cell == ht[cellOf(command)]
    IN  IF cell.size = 0 THEN 0 ELSE walk(cell.head, 1, command)

getExpectedBurstTime(ht, command) ==
    LET k == findNode(ht, command)
    IN  IF k = 0 THEN DefaultBurst
        ELSE LET node == ht[cellOf(command)].head[k]
             IN  node.sum_burst_time \div node.num_bursts

\* updateBurstTime that adds the burst of a known command without counting it
updateBurstTime_uncounted(ht, burst_time, command) ==
    LET c == cellOf(command)
        k == findNode(ht, command)
    IN  IF k = 0
        THEN [ht EXCEPT ![c] =
                 [head |-> <<[command |-> command, sum_burst_time |-> burst_time,
                              num_bursts |-> 1]>> \o ht[c].head,
                  size |-> ht[c].size + 1]]
        ELSE [ht EXCEPT ![c].head[k] =
                 [@ EXCEPT !.sum_burst_time = @ + burst_time]]

\* updateBurstTime that, for a known command, updates the first node of the bucket
updateBurstTime_first(ht, burst_time, command) ==
    LET c == cellOf(command)
        k == findNode(ht, command)
    IN  IF k = 0
        THEN [ht EXCEPT ![c] =
                 [head |-> <<[command |-> command, sum_burst_time |-> burst_time,
                              num_bursts |-> 1]>> \o ht[c].head,
                  size |-> ht[c].size + 1]]
        ELSE [ht EXCEPT ![c].head[1] =
                 [@ EXCEPT !.sum_burst_time = @ + burst_time,
                           !.num_bursts = @ + 1]]

\* node == NULL: a new node at the head of the bucket; otherwise sum += burst, count++
updateBurstTime(ht, burst_time, command) ==
    LET c == cellOf(command)
        k == findNode(ht, command)
    IN  IF k = 0
        THEN [ht EXCEPT ![c] =
                 [head |-> <<[command |-> command, sum_burst_time |-> burst_time,
                              num_bursts |-> 1]>> \o ht[c].head,
                  size |-> ht[c].size + 1]]
        ELSE [ht EXCEPT ![c].head[k] =
                 [@ EXCEPT !.sum_burst_time = @ + burst_time,
                           !.num_bursts = @ + 1]]

\* getMLFQIndex with a strict first comparison: avgBurstTime < Quantum[0]
getMLFQIndex_strict(Q, command, ht) ==
    LET k == findNode(ht, command)
    IN  IF k = 0 THEN 1
        ELSE LET node == ht[cellOf(command)].head[k]
                 avgBurstTime == node.sum_burst_time \div node.num_bursts
             IN  IF avgBurstTime < Q[0] THEN 0
                 ELSE IF avgBurstTime <= Q[1] THEN 1
                 ELSE 2

getMLFQIndex(Q, command, ht) ==
    LET k == findNode(ht, command)
    IN  IF k = 0 THEN 1
        ELSE LET node == ht[cellOf(command)].head[k]
                 avgBurstTime == node.sum_burst_time \div node.num_bursts
             IN  IF avgBurstTime <= Q[0] THEN 0
                 ELSE IF avgBurstTime <= Q[1] THEN 1
                 ELSE 2

\* updateOnExit that updates the history whatever the exit status is
updateOnExit_always(ht, r, status) == updateBurstTime(ht, r.burst_time, r.command)

\* the history is updated in the "no error" branch of an exit, and only there
updateOnExit(ht, r, status) ==
    IF ExitedZero(status) THEN updateBurstTime(ht, r.burst_time, r.command) ELSE ht

(****************************** ingestion *********************************)
\* standard input closed by its writer ends with EndOfInput: it stays readable for
\* select, and read returns 0 once the bytes before it have been read
EndOfInput == 0 - 1
closed(in) == in # <<>> /\ in[Len(in)] = EndOfInput
\* the lines a user may type: "a" and "d", which fall into the same cell, for SJF;
\* the one line "a", typed again and again, for MLFQ
Lines == IF policy = "SJF" THEN {<<97>>, <<100>>} ELSE {<<97>>}

\* the user types one more line, terminated by a newline
\* (standard input is looked at only at the top of the scheduling loop, so a line
\* typed while the scheduler sleeps or waits is seen as one typed when it is back there)
UserTypes ==
    /\ policy \in {"SJF", "OMLFQ"} /\ pc = "loop"
    /\ typed < (IF policy = "SJF" THEN MaxLinesSJF ELSE MaxLinesMLFQ)
    /\ ~closed(stdin)
    /\ \E l \in Lines : stdin' = stdin \o l \o <<Newline>>
    /\ typed' = typed + 1
    /\ UNCHANGED <<policy, pc, now, p, child, i, MLFQ, Quantum, boostTime,
                   current_queue, cur, remaining_processes, last_boost_time,
                   hashTable, inputBuffer, Work,
                   fault, csv, out>>
    /\ UNCHANGED shared

\* readInput: select() says whether standard input is readable
readInputReady(in) == in # <<>>
\* read(STDIN_FILENO, inputBuffer, bufferSize - 1)
available(in) == IF closed(in) THEN Len(in) - 1 ELSE Len(in)
bytesRead(in) == IF available(in) < BufferSize - 1 THEN available(in) ELSE BufferSize - 1
readBuffer(in) == SubSeq(in, 1, bytesRead(in))
readRest(in) == SubSeq(in, bytesRead(in) + 1, Len(in))
\* if (bytesRead > 0) inputBuffer[bytesRead] = '\0'; return true;
readInto(buf, in) == IF bytesRead(in) > 0 THEN readBuffer(in) ELSE buf

\* cmd[i] = inputBuffer[i] for i < strlen; cmd[strlen - 1] = '\0'
commandOf(buf) == SubSeq(buf, 1, Len(buf) - 1)

InitOnline ==
    /\ pc = "loop"
    /\ now = 0
    /\ p = <<>>
    /\ child = <<>>
    /\ i = 0
    /\ MLFQ = EmptyQueues
    /\ current_queue = 0
    /\ cur = 0
    /\ remaining_processes = 0
    /\ last_boost_time = 0
    /\ hashTable = EmptyTable
    /\ stdin = <<>>
    /\ inputBuffer = <<>>
    /\ typed = 0
    /\ Work = [c \in KnownCommands |-> IF policy = "SJF" THEN BlockingWork ELSE AnyWork]

(******************************* online SJF *******************************)
StartSJF(f) ==
    /\ policy = "SJF"
    /\ InitOnline
    /\ Quantum = [t \in 0..2 |-> 0]
    /\ boostTime = 0
    /\ \E old \in PriorFiles : csv = writeHeaderToCSV(old)
    /\ out = <<>>
    /\ fault = f
    /\ shared = NoShared

\* every fork and every waitpid of the run does what it is asked to
InitSJF == StartSJF(NoFault)

\* while (readInput(inputBuffer, 1024)) { build the record; append it }
SJF_Ingest ==
    /\ policy = "SJF" /\ pc = "loop"
    /\ readInputReady(stdin)
    /\ Len(p) < MaxRecords
    /\ inputBuffer' = readInto(inputBuffer, stdin)
    /\ stdin' = readRest(stdin)
    /\ p' = Append(p, newProcess(commandOf(inputBuffer'), now))
    /\ child' = Append(child, NoChild)
    /\ remaining_processes' = remaining_processes + 1
    /\ UNCHANGED <<policy, pc, now, i, MLFQ, Quantum, boostTime, current_queue, cur,
                   last_boost_time, hashTable, typed, Work,
                   fault, csv, out>>
    /\ UNCHANGED shared

\* if (remainingProcesses == 0) { usleep(10000); continue; }
SJF_Idle ==
    /\ policy = "SJF" /\ pc = "loop"
    /\ ~readInputReady(stdin)
    /\ remaining_processes = 0
    \* (only the idle wait before the first line is modelled: a later one shifts the clock)
    /\ now = 0
    /\ now' = now + IdleSJF
    /\ UNCHANGED <<policy, pc, p, child, i, MLFQ, Quantum, boostTime, current_queue,
                   cur, remaining_processes, last_boost_time, hashTable, stdin,
                   inputBuffer, typed, Work,
                   fault, csv, out>>
    /\ UNCHANGED shared

\* scanMin that also takes an equal estimate: expectedBurstTime <= minBurstTime
RECURSIVE scanMin_last(_, _, _, _, _)
scanMin_last(list, ht, k, minIndex, minBurstTime) ==
    IF k > Len(list) THEN minIndex
    ELSE IF list[k].finished \/ list[k].error
    THEN scanMin_last(list, ht, k + 1, minIndex, minBurstTime)
    ELSE LET expectedBurstTime == getExpectedBurstTime(ht, list[k].command)
         IN  IF expectedBurstTime <= minBurstTime
             THEN scanMin_last(list, ht, k + 1, k, expectedBurstTime)
             ELSE scanMin_last(list, ht, k + 1, minIndex, minBurstTime)

\* the selection scan: for (i ...) skip terminal records, keep a strictly smaller estimate
RECURSIVE scanMin(_, _, _, _, _)
scanMin(list, ht, k, minIndex, minBurstTime) ==
    IF k > Len(list) THEN minIndex
    ELSE IF list[k].finished \/ list[k].error
    THEN scanMin(list, ht, k + 1, minIndex, minBurstTime)
    ELSE LET expectedBurstTime == getExpectedBurstTime(ht, list[k].command)
         IN  IF expectedBurstTime < minBurstTime
             THEN scanMin(list, ht, k + 1, k, expectedBurstTime)
             ELSE scanMin(list, ht, k + 1, minIndex, minBurstTime)

\* minIndex, with -1 for "no process found"
selectSJF(list, ht) == scanMin(list, ht, 1, -1, MinBurstInit)

\* the scan, then executeProcess(&processList[minIndex], t0)
SJF_Dispatch ==
    /\ policy = "SJF" /\ pc = "loop"
    /\ ~readInputReady(stdin)
    /\ remaining_processes > 0
    /\ LET minIndex == selectSJF(p, hashTable) IN
       IF minIndex = -1
       THEN UNCHANGED <<p, child, i, pc, fault>>
       ELSE /\ i' = minIndex
            /\ Execute(minIndex)
            /\ pc' = "wait"
    /\ UNCHANGED <<policy, now, MLFQ, Quantum, boostTime, current_queue, cur,
                   remaining_processes, last_boost_time, hashTable, stdin,
                   inputBuffer, typed, Work, csv, out>>
    /\ UNCHANGED shared

\* waitpid(p->process_id, &status, 0) and the branches after it
SJF_Wait ==
    /\ policy = "SJF" /\ pc = "wait"
    /\ \E o \in waitpidBlocking(child, p[i].process_id, WorkOf(p[i].command).code) :
          /\ child' = o.child
          /\ now' = now + o.elapsed
          /\ fault' = waitFault(o, i)
          /\ IF o.result < 0
             THEN UNCHANGED <<p, hashTable, remaining_processes, csv, out>>
             ELSE /\ remaining_processes' = remaining_processes - 1
                  /\ p' = IF ExitedZero(o.status)
                          THEN [p EXCEPT ![i] = finishBlocking(p[i], now')]
                          ELSE [p EXCEPT ![i] = errorBlocking(p[i], now')]
                  /\ hashTable' = updateOnExit(hashTable, p'[i], o.status)
                  /\ csv' = writeProcessToCSV(csv, p'[i])
                  /\ out' = Append(out, contextSwitch(p'[i]))
    /\ pc' = "loop"
    /\ UNCHANGED <<policy, i, MLFQ, Quantum, boostTime, current_queue, cur,
                   last_boost_time, stdin, inputBuffer, typed, Work>>
    /\ UNCHANGED shared

NextSJF == SJF_Ingest \/ SJF_Idle \/ SJF_Dispatch \/ SJF_Wait

(****************************** online MLFQ *******************************)
StartOMLFQ(f) ==
    /\ policy = "OMLFQ"
    /\ InitOnline
    /\ Quantum \in QuantumConfigs
    /\ boostTime \in BoostValues
    /\ \E old \in PriorFiles : csv = writeHeaderToCSV(old)
    /\ out = <<>>
    /\ fault = f
    /\ shared = NoShared

\* every fork and every waitpid of the run does what it is asked to
InitOMLFQ == StartOMLFQ(NoFault)

\* while (readInput(inputBuffer, 1024)) { build the record; classify; enqueue }
OMLFQ_Ingest ==
    /\ policy = "OMLFQ" /\ pc = "loop"
    /\ readInputReady(stdin)
    /\ Len(p) < MaxRecords
    /\ inputBuffer' = readInto(inputBuffer, stdin)
    /\ stdin' = readRest(stdin)
    /\ p' = Append(p, newProcess(commandOf(inputBuffer'), now))
    /\ child' = Append(child, NoChild)
    /\ LET index == getMLFQIndex(Quantum, commandOf(inputBuffer'), hashTable)
       IN  MLFQ' = [MLFQ EXCEPT ![index] = enqueue(MLFQ[index], Len(p'))]
    /\ remaining_processes' = remaining_processes + 1
    /\ UNCHANGED <<policy, pc, now, i, Quantum, boostTime, current_queue, cur,
                   last_boost_time, hashTable, typed, Work,
                   fault, csv, out>>
    /\ UNCHANGED shared

\* if (remainingProcesses == 0) { usleep(1000); continue; }
OMLFQ_Idle ==
    /\ policy = "OMLFQ" /\ pc = "loop"
    /\ ~readInputReady(stdin)
    /\ remaining_processes = 0
    \* (only the idle wait before the first line is modelled: a later one shifts the clock)
    /\ now = 0
    /\ now' = now + IdleMLFQ
    /\ UNCHANGED <<policy, pc, p, child, i, MLFQ, Quantum, boostTime, current_queue,
                   cur, remaining_processes, last_boost_time, hashTable, stdin,
                   inputBuffer, typed, Work,
                   fault, csv, out>>
    /\ UNCHANGED shared

\* firstNonEmpty that scans the tiers from 2 down to 0
firstNonEmpty_down(Q) ==
    IF Len(Q[2]) # 0 THEN 2 ELSE IF Len(Q[1]) # 0 THEN 1 ELSE IF Len(Q[0]) # 0 THEN 0 ELSE 3

\* for (int i = 0; i < 3; i++) { if (MLFQ[i].size == 0) continue; ... break; }
\* the first tier that is not empty, 3 when every tier is empty
firstNonEmpty(Q) ==
    IF Len(Q[0]) # 0 THEN 0 ELSE IF Len(Q[1]) # 0 THEN 1 ELSE IF Len(Q[2]) # 0 THEN 2 ELSE 3

\* the scan of the tiers, the dequeue, executeProcess or resumeProcess
OMLFQ_Dispatch ==
    /\ policy = "OMLFQ" /\ pc = "loop"
    /\ ~readInputReady(stdin)
    /\ remaining_processes > 0
    /\ LET t == firstNonEmpty(MLFQ) IN
       IF t = 3
       THEN /\ pc' = "boost"
            /\ UNCHANGED <<p, child, cur, MLFQ, current_queue, fault>>
       ELSE LET x == dequeueHead(MLFQ[t]) IN
            /\ current_queue' = t
            /\ MLFQ' = [MLFQ EXCEPT ![t] = dequeueRest(MLFQ[t])]
            /\ cur' = x
            /\ pc' = "poll"
            /\ IF p[x].started = FALSE THEN Execute(x) ELSE Resume(x)
    /\ UNCHANGED <<policy, now, i, Quantum, boostTime, remaining_processes,
                   last_boost_time, hashTable, stdin, inputBuffer, typed, Work, csv, out>>
    /\ UNCHANGED shared

\* usleep(Quantum[i] * 1000); waitpid(WNOHANG); pause and demote, or finish / error
OMLFQ_Poll ==
    /\ policy = "OMLFQ" /\ pc = "poll"
    /\ LET t1  == now + Quantum[current_queue]
           ch1 == RunAll(child, Quantum[current_queue])
       IN  \E o \in waitpidNoHang(ch1, p[cur].process_id, WorkOf(p[cur].command).code) :
             /\ fault' = waitFault(o, cur)
             /\ IF o.result < 0
                THEN /\ now' = t1 /\ child' = o.child
                     /\ UNCHANGED <<p, MLFQ, remaining_processes, hashTable, csv>>
                ELSE IF o.result = 0
                THEN \E r \in Delays :
                        LET ch2 == RunAll(o.child, r) IN
                        /\ now' = t1 + r
                        /\ p' = [p EXCEPT ![cur] = pauseProcess(p[cur], now')]
                        /\ child' = IF p[cur].started THEN [ch2 EXCEPT ![cur] = Stop(ch2[cur])]
                                     ELSE ch2
                        /\ MLFQ' = demote(MLFQ, current_queue, cur)
                        /\ UNCHANGED <<remaining_processes, hashTable, csv>>
                ELSE /\ now' = t1
                     /\ child' = o.child
                     /\ p' = IF ExitedZero(o.status)
                             THEN [p EXCEPT ![cur] = finishSliced(p[cur], now')]
                             ELSE [p EXCEPT ![cur] = errorSliced(p[cur], now')]
                     /\ hashTable' = updateOnExit(hashTable, p'[cur], o.status)
                     /\ remaining_processes' = remaining_processes - 1
                     /\ csv' = writeProcessToCSV(csv, p'[cur])
                     /\ UNCHANGED MLFQ
             \* print context switch (whatever waitpid returned)
             /\ out' = Append(out, contextSwitch(p'[cur]))
    /\ pc' = "boost"
    /\ UNCHANGED <<policy, i, Quantum, boostTime, current_queue, cur,
                   last_boost_time, stdin, inputBuffer, typed, Work>>
    /\ UNCHANGED shared

\* the boost check that ends every iteration of the online loop
OMLFQ_Boost ==
    /\ policy = "OMLFQ" /\ pc = "boost"
    /\ IF boostDue(now, last_boost_time, boostTime)
       THEN /\ MLFQ' = boost(MLFQ)
            /\ last_boost_time' = now
       ELSE UNCHANGED <<last_boost_time, MLFQ>>
    \* the scan index and the Process* of the round go out of scope
    /\ current_queue' = 0
    /\ cur' = 0
    /\ pc' = "loop"
    /\ UNCHANGED <<policy, now, p, child, i, Quantum, boostTime,
                   remaining_processes, hashTable, stdin, inputBuffer, typed, Work,
                   fault, csv, out>>
    /\ UNCHANGED shared

NextOMLFQ == OMLFQ_Ingest \/ OMLFQ_Idle \/ OMLFQ_Dispatch \/ OMLFQ_Poll \/ OMLFQ_Boost

(************************ the predictor on its own ************************)
\* the hash table driven as the online schedulers drive it, with inputs of any
\* kind: a finished run of a command reports its burst, an arrival is classified
PredictorCommands == {<<97>>, <<100>>, <<98>>}
Bursts == {0, 1, 3}
PredictorQuanta == {MkQuantum(q0, q1, 3) : q0 \in 1..3, q1 \in 1..3}

InitPredictor ==
    /\ policy = "predictor"
    /\ InitOnline
    /\ Quantum \in PredictorQuanta
    /\ boostTime = 0
    /\ fault = NoFault
    /\ csv = <<>>
    /\ out = <<>>
    /\ shared = NoShared

\* a run of `command` that took b ms exits with code 0: finish it, update the history
Predictor_Update ==
    /\ policy = "predictor" /\ pc = "loop"
    /\ Len(p) < MaxRuns
    /\ \E command \in PredictorCommands, b \in Bursts :
          LET r == executeProcess(newProcess(command, now), Len(p) + 1, now) IN
          /\ p' = Append(p, finishSliced(r, now + b))
          /\ hashTable' = updateOnExit(hashTable, p'[Len(p')], 0)
    /\ child' = Append(child, [st |-> "reaped", left |-> 0])
    /\ UNCHANGED <<policy, pc, now, i, MLFQ, Quantum, boostTime, current_queue, cur,
                   remaining_processes, last_boost_time, stdin, inputBuffer, typed, Work,
                   fault, csv, out>>
    /\ UNCHANGED shared

\* an arrival of `command`: classify it from the history and enqueue it
Predictor_Classify ==
    /\ policy = "predictor" /\ pc = "loop"
    /\ \E command \in PredictorCommands :
          /\ inputBuffer' = command \o <<Newline>>
          /\ p' = Append(p, newProcess(command, now))
          /\ LET index == getMLFQIndex(Quantum, command, hashTable)
             IN  MLFQ' = [MLFQ EXCEPT ![index] = enqueue(MLFQ[index], Len(p'))]
    /\ child' = Append(child, NoChild)
    /\ remaining_processes' = remaining_processes + 1
    /\ pc' = "done"
    /\ UNCHANGED <<policy, now, i, Quantum, boostTime, current_queue, cur,
                   last_boost_time, hashTable, stdin, typed, Work,
                   fault, csv, out>>
    /\ UNCHANGED shared

NextPredictor == Predictor_Update \/ Predictor_Classify

(**************************** specifications ******************************)
Init == InitFCFS \/ InitRR \/ InitMLFQ \/ InitSJF \/ InitOMLFQ
Next == NextFCFS \/ NextRR \/ NextMLFQ \/ NextSJF \/ NextOMLFQ \/ UserTypes
\* any of the five schedulers, every fork and every waitpid doing what it is asked to
Spec == Init /\ [][Next]_vars

SpecFCFS == InitFCFS /\ [][NextFCFS]_vars
SpecRR == InitRR /\ [][NextRR]_vars
SpecSJF == InitSJF /\ [][NextSJF \/ UserTypes]_vars
\* the two MLFQ schedulers
SpecMLFQ == (InitMLFQ \/ InitOMLFQ) /\ [][NextMLFQ \/ NextOMLFQ \/ UserTypes]_vars
\* the two online schedulers
SpecOnline == (InitSJF \/ InitOMLFQ) /\ [][NextSJF \/ NextOMLFQ \/ UserTypes]_vars

\* any of the five schedulers, on a system where one fork or one waitpid may fail
InitFaults ==
    \/ StartFCFS(Armed) \/ StartRR(Armed) \/ StartMLFQ(Armed)
    \/ StartSJF(Armed) \/ StartOMLFQ(Armed)
SpecFaults == InitFaults /\ [][Next]_vars

\* the burst predictor on its own
SpecPredictor == InitPredictor /\ [][NextPredictor]_vars

(************************ one record under offline MLFQ ********************)
\* MultiLevelFeedbackQueue(20, 40, 80, 500, p, 1): one record, whose child needs
\* 300 ms of running time, or 600 ms so that a boost finds it incomplete
TierScenarioNeeds == {300, 600}

InitTierScenario ==
    /\ policy = "MLFQ"
    /\ pc = "loop"
    /\ now = 0
    /\ p = <<initializeProcess(OfflineInput(1)[1].command)>>
    /\ child = <<NoChild>>
    /\ remaining_processes = 1
    \* enqueue all processes to high priority queue
    /\ MLFQ = [t \in 0..2 |-> IF t = 0 THEN <<1>> ELSE <<>>]
    /\ i = 0
    /\ Quantum = MkQuantum(20, 40, 80)
    /\ boostTime = 500
    /\ current_queue = 0
    /\ cur = 0
    /\ last_boost_time = 0
    /\ unusedOffline
    /\ \E w \in TierScenarioNeeds :
          Work = [c \in KnownCommands |-> [need |-> {w}, code |-> {0, 1}]]
    /\ \E old \in PriorFiles : csv = writeHeaderToCSV(old)
    /\ out = <<>>
    /\ fault = NoFault
    /\ shared = NoShared

SpecTierScenario == InitTierScenario /\ [][NextMLFQ]_vars

(************************ three records under FCFS *************************)
\* FCFS(p, 3): three records whose children run for 10, 50 or 200 ms each
ScenarioRuns == {10, 50, 200}

InitFCFSScenario ==
    /\ policy = "FCFS"
    /\ pc = "loop"
    /\ now = 0
    /\ p = [k \in 1..3 |-> initializeProcess(OfflineInput(3)[k].command)]
    /\ child = [k \in 1..3 |-> NoChild]
    /\ i = 1
    /\ MLFQ = EmptyQueues
    /\ Quantum = [t \in 0..2 |-> 0]
    /\ boostTime = 0
    /\ current_queue = 0
    /\ cur = 0
    /\ remaining_processes = 0
    /\ last_boost_time = 0
    /\ unusedOffline
    /\ \E run \in [1..3 -> ScenarioRuns] :
          Work = [c \in KnownCommands |->
                     [need |-> IF c[1] - 96 \in 1..3 THEN {run[c[1] - 96]} ELSE {0},
                      code |-> {0, 1}]]
    /\ \E old \in PriorFiles : csv = writeHeaderToCSV(old)
    /\ out = <<>>
    /\ fault = NoFault
    /\ shared = NoShared

SpecFCFSScenario == InitFCFSScenario /\ [][NextFCFS]_vars

(******************* pauseProcess and resumeProcess on their own ************)
\* kill(p->process_id, SIGSTOP) of pauseProcess and kill(p->process_id, SIGCONT) of
\* resumeProcess: the signal the call sends for record r, "none" when it returns early
pauseSignal(r) == IF r.started = FALSE \/ r.finished = TRUE THEN "none" ELSE "SIGSTOP"
resumeSignal(r) == IF r.started = FALSE \/ r.finished = TRUE THEN "none" ELSE "SIGCONT"

\* what the signal does to the process it is sent to
deliver(c, sig) ==
    IF sig = "SIGSTOP" THEN Stop(c) ELSE IF sig = "SIGCONT" THEN Cont(c) ELSE c

\* number of calls made on the record
MaxCalls == 3

\* the records a scheduler makes of a command started at time s, with the child
\* each of them has: not started, running (the child may have exited unnoticed),
\* paused, Finished, Error
SignalInputs ==
    LET new  == initializeProcess(<<97>>)
        run  == executeProcess(new, 1, 0)
    IN  {[r |-> new, c |-> NoChild],
         [r |-> run, c |-> Fork(MaxNeed)],
         [r |-> run, c |-> RunFor(Fork(1), 1)],
         [r |-> pauseProcess(run, 1), c |-> Stop(Fork(MaxNeed))],
         [r |-> finishSliced(run, 1), c |-> [st |-> "reaped", left |-> 0]],
         [r |-> finishFCFS(run, 1), c |-> [st |-> "reaped", left |-> 0]],
         [r |-> errorSliced(run, 1), c |-> [st |-> "reaped", left |-> 0]],
         [r |-> errorBlocking(run, 1), c |-> [st |-> "reaped", left |-> 0]]}

InitSignals ==
    /\ policy = "signals"
    /\ pc = "loop"
    /\ now = 1
    /\ \E x \in SignalInputs : p = <<x.r>> /\ child = <<x.c>>
    /\ i = 0
    /\ MLFQ = EmptyQueues
    /\ Quantum = [t \in 0..2 |-> 0]
    /\ boostTime = 0
    /\ current_queue = 0
    /\ cur = 0
    /\ remaining_processes = 0
    /\ last_boost_time = 0
    /\ unusedOffline
    /\ Work = [c \in KnownCommands |-> AnyWork]
    /\ csv = <<>>
    /\ out = <<>>
    /\ fault = NoFault
    /\ shared = NoShared

\* pauseProcess(&p[1], t0), called r ms after the call before it
Call_pauseProcess ==
    /\ policy = "signals" /\ i < MaxCalls
    /\ \E r \in Delays :
          /\ now' = now + r
          /\ p' = [p EXCEPT ![1] = pauseProcess(p[1], now')]
          /\ child' = [child EXCEPT ![1] = deliver(RunFor(child[1], r), pauseSignal(p[1]))]
    /\ i' = i + 1
    /\ pc' = "paused"
    /\ UNCHANGED <<policy, MLFQ, Quantum, boostTime, current_queue, cur,
                   remaining_processes, last_boost_time, hashTable, stdin, inputBuffer,
                   typed, Work, fault, csv, out>>
    /\ UNCHANGED shared

\* resumeProcess(&p[1], t0), called r ms after the call before it
Call_resumeProcess ==
    /\ policy = "signals" /\ i < MaxCalls
    /\ \E r \in Delays :
          /\ now' = now + r
          /\ p' = [p EXCEPT ![1] = resumeProcess(p[1], now')]
          /\ child' = [child EXCEPT ![1] = deliver(RunFor(child[1], r), resumeSignal(p[1]))]
    /\ i' = i + 1
    /\ pc' = "resumed"
    /\ UNCHANGED <<policy, MLFQ, Quantum, boostTime, current_queue, cur,
                   remaining_processes, last_boost_time, hashTable, stdin, inputBuffer,
                   typed, Work, fault, csv, out>>
    /\ UNCHANGED shared

NextSignals == Call_pauseProcess \/ Call_resumeProcess

SpecSignals == InitSignals /\ [][NextSignals]_vars

(************************ the offline schedulers, live **********************)
\* FCFS, RoundRobin and the offline MultiLevelFeedbackQueue as the sequential
\* programs they are: a scheduler that can take its next step takes it
NextOffline == NextFCFS \/ NextRR \/ NextMLFQ
SpecOfflineLive ==
    /\ (InitFCFS \/ InitRR \/ InitMLFQ)
    /\ [][NextOffline]_vars
    /\ WF_vars(NextOffline)

(********************* online MLFQ with arrivals, live *********************)
\* MultiLevelFeedbackQueue(2, 2, 3, 5) of the online schedulers, the user typing
\* the line "a" up to MaxArrivals times, at any moment at which the line before
\* has been read; the scheduler is a sequential loop that takes its next step, the
\* user need not type
MaxArrivals == 3

\* a run of "a" is short (1 ms) or long (4 ms: a slice of tier 1 and one of
\* tier 2), and exits with code 0
ShortOrLong == [need |-> {1, 4}, code |-> {0}]

InitStarvation ==
    /\ policy = "OMLFQ"
    /\ pc = "loop"
    /\ now = 0
    /\ p = <<>>
    /\ child = <<>>
    /\ i = 0
    /\ MLFQ = EmptyQueues
    /\ current_queue = 0
    /\ cur = 0
    /\ remaining_processes = 0
    /\ last_boost_time = 0
    /\ hashTable = EmptyTable
    /\ stdin = <<>>
    /\ inputBuffer = <<>>
    /\ typed = 0
    /\ Work = [c \in KnownCommands |-> ShortOrLong]
    /\ Quantum = MkQuantum(2, 2, 3)
    /\ boostTime \in BoostValues
    /\ csv = writeHeaderToCSV(<<>>)
    /\ out = <<>>
    /\ fault = NoFault
    /\ shared = NoShared

UserTypesAgain ==
    /\ policy = "OMLFQ" /\ pc = "loop"
    /\ typed < MaxArrivals
    /\ stdin = <<>>
    /\ stdin' = stdin \o <<97, Newline>>
    /\ typed' = typed + 1
    /\ UNCHANGED <<policy, pc, now, p, child, i, MLFQ, Quantum, boostTime,
                   current_queue, cur, remaining_processes, last_boost_time,
                   hashTable, inputBuffer, Work, fault, csv, out>>
    /\ UNCHANGED shared

SpecStarvation ==
    /\ InitStarvation
    /\ [][NextOMLFQ \/ UserTypesAgain]_vars
    /\ WF_vars(NextOMLFQ)

(************************* failing allocations ****************************)
\* malloc may return NULL.  A run has at most one such failure: `kind` is "malloc"
\* while it may still happen; once it has happened, `kind` is the structure that was
\* asked for and `rec` the record the call was made for.
MayRunOut == [armed |-> FALSE, kind |-> "malloc", rec |-> 0]
\* the structures whose allocation is followed by a test for NULL, and those that
\* are written through the pointer at once: newNode->process = p in enqueue,
\* newNode->command = strdup(command) in updateBurstTime
CheckedSites == {"Process", "command"}
UncheckedSites == {"QueueNode", "HashTableNode"}
\* what a store through the null pointer may do: the scheduler is killed by the
\* signal, or the store has no effect and the run goes on with the structure as it was
NullStore == {"killed", "goes on"}

\* the ingestion of online SJF when malloc fails for the record or for its command
SJF_Ingest_NoMemory ==
    /\ policy = "SJF" /\ pc = "loop" /\ fault = MayRunOut
    /\ readInputReady(stdin)
    /\ inputBuffer' = readInto(inputBuffer, stdin)
    /\ stdin' = readRest(stdin)
    /\ \E site \in CheckedSites : fault' = Failed(site, Len(p) + 1)
    \* printf("[ERROR]: Memory allocation failed\n"); return;
    /\ pc' = "done"
    /\ UNCHANGED <<policy, now, p, child, i, MLFQ, Quantum, boostTime, current_queue, cur,
                   remaining_processes, last_boost_time, hashTable, typed, Work, csv, out>>
    /\ UNCHANGED shared

\* the ingestion of online MLFQ when malloc fails for the record or for its command
\* (return), or for the queue node of enqueue (a store through NULL)
OMLFQ_Ingest_NoMemory ==
    /\ policy = "OMLFQ" /\ pc = "loop" /\ fault = MayRunOut
    /\ readInputReady(stdin)
    /\ inputBuffer' = readInto(inputBuffer, stdin)
    /\ stdin' = readRest(stdin)
    /\ \/ /\ \E site \in CheckedSites : fault' = Failed(site, Len(p) + 1)
          /\ pc' = "done"
          /\ UNCHANGED <<p, child, remaining_processes>>
       \/ /\ fault' = Failed("QueueNode", Len(p) + 1)
          /\ p' = Append(p, newProcess(commandOf(inputBuffer'), now))
          /\ child' = Append(child, NoChild)
          /\ \E u \in NullStore :
                IF u = "killed"
                THEN pc' = "killed" /\ UNCHANGED remaining_processes
                ELSE pc' = "loop" /\ remaining_processes' = remaining_processes + 1
    /\ UNCHANGED <<policy, now, i, MLFQ, Quantum, boostTime, current_queue, cur,
                   last_boost_time, hashTable, typed, Work, csv, out>>
    /\ UNCHANGED shared

\* the wait of online SJF when the child has exited with code 0 and malloc fails for
\* the entry updateBurstTime makes for a command without history
SJF_Wait_NoMemory ==
    /\ policy = "SJF" /\ pc = "wait" /\ fault = MayRunOut
    /\ findNode(hashTable, p[i].command) = 0
    /\ \E o \in waitpidBlocking(child, p[i].process_id, WorkOf(p[i].command).code) :
          /\ o.result > 0 /\ ExitedZero(o.status)
          /\ child' = o.child
          /\ now' = now + o.elapsed
          /\ p' = [p EXCEPT ![i] = finishBlocking(p[i], now')]
    /\ fault' = Failed("HashTableNode", i)
    /\ \E u \in NullStore :
          IF u = "killed"
          THEN pc' = "killed" /\ UNCHANGED <<remaining_processes, csv, out>>
          ELSE /\ pc' = "loop"
               /\ remaining_processes' = remaining_processes - 1
               /\ csv' = writeProcessToCSV(csv, p'[i])
               /\ out' = Append(out, contextSwitch(p'[i]))
    /\ UNCHANGED <<policy, i, MLFQ, Quantum, boostTime, current_queue, cur,
                   last_boost_time, hashTable, stdin, inputBuffer, typed, Work>>
    /\ UNCHANGED shared

\* the poll of online MLFQ when malloc fails for the queue node of the demotion, or
\* for the entry updateBurstTime makes for a command without history
OMLFQ_Poll_NoMemory ==
    /\ policy = "OMLFQ" /\ pc = "poll" /\ fault = MayRunOut
    /\ LET t1  == now + Quantum[current_queue]
           ch1 == RunAll(child, Quantum[current_queue])
       IN  \E o \in waitpidNoHang(ch1, p[cur].process_id, WorkOf(p[cur].command).code) :
           \E u \in NullStore :
             IF o.result = 0
             THEN \E r \in Delays :
                     LET ch2 == RunAll(o.child, r) IN
                     /\ now' = t1 + r
                     /\ p' = [p EXCEPT ![cur] = pauseProcess(p[cur], now')]
                     /\ child' = [ch2 EXCEPT ![cur] = Stop(ch2[cur])]
                     /\ fault' = Failed("QueueNode", cur)
                     /\ IF u = "killed"
                        THEN pc' = "killed" /\ out' = out
                        ELSE pc' = "boost" /\ out' = Append(out, contextSwitch(p'[cur]))
                     /\ UNCHANGED <<remaining_processes, csv>>
             ELSE /\ o.result > 0 /\ ExitedZero(o.status)
                  /\ findNode(hashTable, p[cur].command) = 0
                  /\ now' = t1
                  /\ child' = o.child
                  /\ p' = [p EXCEPT ![cur] = finishSliced(p[cur], now')]
                  /\ fault' = Failed("HashTableNode", cur)
                  /\ IF u = "killed"
                     THEN pc' = "killed" /\ UNCHANGED <<remaining_processes, csv, out>>
                     ELSE /\ pc' = "boost"
                          /\ remaining_processes' = remaining_processes - 1
                          /\ csv' = writeProcessToCSV(csv, p'[cur])
                          /\ out' = Append(out, contextSwitch(p'[cur]))
    /\ UNCHANGED <<policy, i, MLFQ, Quantum, boostTime, current_queue, cur,
                   last_boost_time, hashTable, stdin, inputBuffer, typed, Work>>
    /\ UNCHANGED shared

\* the boost of online MLFQ when malloc fails for the queue node of the first record
\* it moves: the record has left its tier and is put into no tier
OMLFQ_Boost_NoMemory ==
    /\ policy = "OMLFQ" /\ pc = "boost" /\ fault = MayRunOut
    /\ boostDue(now, last_boost_time, boostTime)
    /\ MLFQ[1] \o MLFQ[2] # <<>>
    /\ LET t  == IF MLFQ[1] # <<>> THEN 1 ELSE 2
           x  == dequeueHead(MLFQ[t])
           Q1 == [MLFQ EXCEPT ![t] = dequeueRest(MLFQ[t])]
       IN  /\ fault' = Failed("QueueNode", x)
           /\ \E u \in NullStore :
                 IF u = "killed"
                 THEN /\ pc' = "killed" /\ MLFQ' = Q1
                      /\ UNCHANGED <<last_boost_time, current_queue, cur>>
                 ELSE /\ pc' = "loop" /\ MLFQ' = boost(Q1)
                      /\ last_boost_time' = now
                      /\ current_queue' = 0
                      /\ cur' = 0
    /\ UNCHANGED <<policy, now, p, child, i, Quantum, boostTime,
                   remaining_processes, hashTable, stdin, inputBuffer, typed, Work,
                   csv, out>>
    /\ UNCHANGED shared

NextNoMemory ==
    \/ SJF_Ingest_NoMemory \/ OMLFQ_Ingest_NoMemory \/ SJF_Wait_NoMemory
    \/ OMLFQ_Poll_NoMemory \/ OMLFQ_Boost_NoMemory

\* the two online schedulers on a system where one malloc may fail
InitNoMemory == StartSJF(MayRunOut) \/ StartOMLFQ(MayRunOut)
SpecNoMemory == InitNoMemory /\ [][NextSJF \/ NextOMLFQ \/ UserTypes \/ NextNoMemory]_vars

(**************************** empty commands ******************************)
\* the commands of the records a caller hands to an offline scheduler, some of them
\* without any token: "", " ", "a", "a " and "b"
SomeEmpty == {<<>>, <<Space>>, <<97>>, <<97, Space>>, <<98>>}

InitEmptyCommand ==
    /\ policy \in {"FCFS", "RR"}
    /\ pc = "loop"
    /\ now = 0
    /\ \E m \in 1..MaxProcs : \E cmds \in [1..m -> SomeEmpty] :
          /\ p = [k \in 1..m |-> initializeProcess(cmds[k])]
          /\ child = [k \in 1..m |-> NoChild]
          /\ remaining_processes = IF policy = "RR" THEN m ELSE 0
    /\ i = 1
    /\ MLFQ = EmptyQueues
    /\ Quantum = [t \in 0..2 |-> IF policy = "RR" THEN 2 ELSE 0]
    /\ boostTime = 0
    /\ current_queue = 0
    /\ cur = 0
    /\ last_boost_time = 0
    /\ unusedOffline
    /\ Work = [c \in KnownCommands |-> AnyWork]
    /\ csv = writeHeaderToCSV(<<>>)
    /\ out = <<>>
    /\ fault = NoFault
    /\ shared = NoShared

SpecEmptyCommand == InitEmptyCommand /\ [][NextFCFS \/ NextRR]_vars

(******************************* the Queue ********************************)
\* The Queue struct with its QueueNodes in memory.  A pointer to a node is its
\* address in 1..MaxNodes, NULL is 0; a Process* is the index of the record.
MaxNodes == 3
MaxQueueCalls == 6
NULL == 0
\* MLFQ[i].head = NULL; MLFQ[i].tail = NULL; MLFQ[i].size = 0; no node allocated
EmptyQueue ==
    [head |-> NULL, tail |-> NULL, size |-> 0,
     node |-> [a \in 1..MaxNodes |-> [used |-> FALSE, process |-> NULL, next |-> NULL]]]
\* the addresses malloc(sizeof(QueueNode)) may return
mallocNode(Q) == {a \in 1..MaxNodes : ~Q.node[a].used}

\* enqueue that links the new node in front of the head
enqueue_front(Q, newNode, x) ==
    [Q EXCEPT !.node[newNode] = [used |-> TRUE, process |-> x, next |-> Q.head],
              !.head = newNode,
              !.tail = IF Q.head = NULL THEN newNode ELSE @,
              !.size = @ + 1]

\* enqueue(q, p), newNode being the address malloc returned
enqueueNode(Q, newNode, x) ==
    LET N1 == [Q.node EXCEPT ![newNode] = [used |-> TRUE, process |-> x, next |-> NULL]]
    IN  IF Q.head = NULL
        THEN [Q EXCEPT !.node = N1, !.head = newNode, !.tail = newNode, !.size = @ + 1]
        ELSE [Q EXCEPT !.node = [N1 EXCEPT ![Q.tail].next = newNode],
                       !.tail = newNode, !.size = @ + 1]

\* dequeue(q): the Process* it returns and the queue it leaves
dequeueNode(Q) ==
    IF Q.head = NULL THEN [ret |-> NULL, q |-> Q]
    ELSE LET temp == Q.head
             h2   == Q.node[temp].next
         IN  [ret |-> Q.node[temp].process,
              q   |-> [Q EXCEPT !.head = h2,
                                !.tail = IF h2 = NULL THEN NULL ELSE @,
                                !.node[temp].used = FALSE,
                                !.size = @ - 1]]

InitQueue ==
    /\ policy = "queue"
    /\ pc = "loop"
    /\ now = 0
    /\ \E m \in 1..MaxProcs :
          /\ p = [k \in 1..m |-> initializeProcess(OfflineInput(m)[k].command)]
          /\ child = [k \in 1..m |-> NoChild]
    /\ i = 0
    /\ MLFQ = EmptyQueue
    /\ Quantum = [t \in 0..2 |-> 0]
    /\ boostTime = 0
    /\ current_queue = 0
    /\ cur = 0
    /\ remaining_processes = 0
    /\ last_boost_time = 0
    /\ unusedOffline
    /\ Work = [c \in KnownCommands |-> AnyWork]
    /\ csv = <<>>
    /\ out = <<>>
    /\ fault = NoFault
    /\ shared = NoShared

\* enqueue(&MLFQ, &p[x]) with a malloc that succeeds; out keeps the calls made
Call_enqueue ==
    /\ policy = "queue" /\ i < MaxQueueCalls
    /\ \E x \in 1..Len(p) : \E newNode \in mallocNode(MLFQ) :
          /\ MLFQ' = enqueueNode(MLFQ, newNode, x)
          /\ out' = Append(out, <<"enqueue", x>>)
    /\ i' = i + 1
    /\ pc' = "enqueued"
    /\ UNCHANGED <<policy, now, p, child, Quantum, boostTime, current_queue, cur,
                   remaining_processes, last_boost_time, hashTable, stdin, inputBuffer,
                   typed, Work, fault, csv>>
    /\ UNCHANGED shared

\* cur = dequeue(&MLFQ)
Call_dequeue ==
    /\ policy = "queue" /\ i < MaxQueueCalls
    /\ MLFQ' = dequeueNode(MLFQ).q
    /\ cur' = dequeueNode(MLFQ).ret
    /\ out' = Append(out, <<"dequeue", cur'>>)
    /\ i' = i + 1
    /\ pc' = "dequeued"
    /\ UNCHANGED <<policy, now, p, child, Quantum, boostTime, current_queue,
                   remaining_processes, last_boost_time, hashTable, stdin, inputBuffer,
                   typed, Work, fault, csv>>
    /\ UNCHANGED shared

NextQueue == Call_enqueue \/ Call_dequeue
SpecQueue == InitQueue /\ [][NextQueue]_vars

(************************** a very long command ***************************)
\* a command whose run takes 1e9 ms, so that the estimate its history gives is not
\* below the minBurstTime = 1e9 the scan of online SJF starts from
LongRun == 1000000000
LongOrShort(c) ==
    IF c = <<97>> THEN [need |-> {LongRun}, code |-> {0}] ELSE BlockingWork

\* online SJF where "a" is such a command and "d" is an ordinary one
InitLongRun ==
    /\ policy = "SJF"
    /\ pc = "loop"
    /\ now = 0
    /\ p = <<>>
    /\ child = <<>>
    /\ i = 0
    /\ MLFQ = EmptyQueues
    /\ Quantum = [t \in 0..2 |-> 0]
    /\ boostTime = 0
    /\ current_queue = 0
    /\ cur = 0
    /\ remaining_processes = 0
    /\ last_boost_time = 0
    /\ hashTable = EmptyTable
    /\ stdin = <<>>
    /\ inputBuffer = <<>>
    /\ typed = 0
    /\ Work = [c \in KnownCommands |-> LongOrShort(c)]
    /\ csv = writeHeaderToCSV(<<>>)
    /\ out = <<>>
    /\ fault = NoFault
    /\ shared = NoShared

SpecLongRun == InitLongRun /\ [][NextSJF \/ UserTypes]_vars

(***************************** end of input ******************************)
\* the writer of standard input closes it (end of a file or of a pipe, Ctrl-D),
\* after at least one line, so that inputBuffer has been written when read returns 0
UserCloses ==
    /\ policy \in {"SJF", "OMLFQ"} /\ pc = "loop"
    /\ typed >= 1
    /\ ~closed(stdin)
    /\ stdin' = Append(stdin, EndOfInput)
    /\ UNCHANGED <<policy, pc, now, p, child, i, MLFQ, Quantum, boostTime,
                   current_queue, cur, remaining_processes, last_boost_time,
                   hashTable, inputBuffer, typed, Work,
                   fault, csv, out>>
    /\ UNCHANGED shared

\* the two online schedulers with a standard input that may end
InitEndOfInput == InitSJF \/ InitOMLFQ
SpecEndOfInput ==
    InitEndOfInput /\ [][NextSJF \/ NextOMLFQ \/ UserTypes \/ UserCloses]_vars

(********************* the programs without a scheduler *********************)
\* the variables of the schedulers, which the other programs leave alone
scheduler == <<pc, now, p, child, i, MLFQ, Quantum, boostTime, current_queue, cur,
               remaining_processes, last_boost_time, hashTable, stdin, inputBuffer,
               typed, Work, fault, csv, out>>

NoScheduler ==
    /\ pc = "none"
    /\ now = 0
    /\ p = <<>>
    /\ child = <<>>
    /\ i = 0
    /\ MLFQ = EmptyQueues
    /\ Quantum = [t \in 0..2 |-> 0]
    /\ boostTime = 0
    /\ current_queue = 0
    /\ cur = 0
    /\ remaining_processes = 0
    /\ last_boost_time = 0
    /\ unusedOffline
    /\ Work = <<>>
    /\ fault = NoFault
    /\ csv = <<>>
    /\ out = <<>>

\* a thread is at the source line it executes next; a thread that returned is at Done
Done == 0
at(t) == shared.at[t]
Threads == DOMAIN shared.at
Readers == {t \in Threads : shared.role[t] = "reader"}
Writers == {t \in Threads : shared.role[t] = "writer"}

\* sem_wait(&rw->s) returns once the count of s is positive, and takes one;
\* sem_post(&rw->s) adds one.  The thread goes on at line l.
\* (a sem_wait that returns at once, whatever the count: the lock without its waiting)
sem_trywait(t, s, l) == shared' = [shared EXCEPT !.rw[s] = @ - 1, !.at[t] = l]

sem_wait(t, s, l) ==
    /\ shared.rw[s] > 0
    /\ shared' = [shared EXCEPT !.rw[s] = @ - 1, !.at[t] = l]

sem_post(t, s, l) == shared' = [shared EXCEPT !.rw[s] = @ + 1, !.at[t] = l]

\* rw->field = v, and a step that only moves on
store(t, field, v, l) == shared' = [shared EXCEPT !.rw[field] = v, !.at[t] = l]
goto(t, l) == shared' = [shared EXCEPT !.at[t] = l]

\* fprintf(file, "...:[%d]\n", count), where the read of the count takes no lock
fprintf(t, what, count, l) ==
    shared' = [shared EXCEPT !.file = Append(@, <<what, t, count>>), !.at[t] = l]

(************************ the writer-preference lock ************************)
rwLockWriterPrefInit ==
    [activeReaders |-> 0, waitingReaders |-> 0, waitingWriters |-> 0,
     activeReadersMutex |-> 1, waitingReadersMutex |-> 1, waitingWritersMutex |-> 1,
     writeLock |-> 1, readersQueue |-> 1]

rwLockWriterPrefReadLock(t) ==
    \/ at(t) = 61 /\ sem_wait(t, "waitingReadersMutex", 62)
    \/ at(t) = 62 /\ store(t, "waitingReaders", shared.rw.waitingReaders + 1, 63)
    \/ at(t) = 63 /\ sem_post(t, "waitingReadersMutex", 65)
    \/ at(t) = 65 /\ sem_wait(t, "readersQueue", 66)
    \/ at(t) = 66 /\ sem_wait(t, "waitingWritersMutex", 67)
    \/ at(t) = 67 /\ goto(t, IF shared.rw.waitingWriters > 0 THEN 69 ELSE 76)
    \/ at(t) = 69 /\ sem_post(t, "waitingWritersMutex", 70)
    \/ at(t) = 70 /\ sem_post(t, "readersQueue", 72)
    \/ at(t) = 72 /\ sem_wait(t, "readersQueue", 73)
    \/ at(t) = 73 /\ sem_wait(t, "waitingWritersMutex", 67)
    \/ at(t) = 76 /\ sem_wait(t, "activeReadersMutex", 77)
    \/ at(t) = 77 /\ store(t, "activeReaders", shared.rw.activeReaders + 1, 78)
    \/ at(t) = 78 /\ goto(t, IF shared.rw.activeReaders = 1 THEN 80 ELSE 82)
    \/ at(t) = 80 /\ sem_wait(t, "writeLock", 82)
    \/ at(t) = 82 /\ sem_post(t, "activeReadersMutex", 84)
    \/ at(t) = 84 /\ sem_wait(t, "waitingReadersMutex", 85)
    \/ at(t) = 85 /\ store(t, "waitingReaders", shared.rw.waitingReaders - 1, 86)
    \/ at(t) = 86 /\ sem_post(t, "waitingReadersMutex", 88)
    \/ at(t) = 88 /\ sem_post(t, "waitingWritersMutex", 89)
    \/ at(t) = 89 /\ sem_post(t, "readersQueue", 153)

rwLockWriterPrefReadUnlock(t) ==
    \/ at(t) = 100 /\ sem_wait(t, "activeReadersMutex", 101)
    \/ at(t) = 101 /\ store(t, "activeReaders", shared.rw.activeReaders - 1, 102)
    \/ at(t) = 102 /\ goto(t, IF shared.rw.activeReaders = 0 THEN 104 ELSE 106)
    \/ at(t) = 104 /\ sem_post(t, "writeLock", 106)
    \/ at(t) = 106 /\ sem_post(t, "activeReadersMutex", Done)

\* (a WriteLock whose first waiting writer does not take readersQueue)
rwLockWriterPrefWriteLock_open(t) ==
    \/ at(t) = 117 /\ sem_wait(t, "waitingWritersMutex", 118)
    \/ at(t) = 118 /\ store(t, "waitingWriters", shared.rw.waitingWriters + 1, 119)
    \/ at(t) = 119 /\ goto(t, 123)
    \/ at(t) = 123 /\ sem_post(t, "waitingWritersMutex", 125)
    \/ at(t) = 125 /\ sem_wait(t, "writeLock", 169)

rwLockWriterPrefWriteLock(t) ==
    \/ at(t) = 117 /\ sem_wait(t, "waitingWritersMutex", 118)
    \/ at(t) = 118 /\ store(t, "waitingWriters", shared.rw.waitingWriters + 1, 119)
    \/ at(t) = 119 /\ goto(t, IF shared.rw.waitingWriters = 1 THEN 121 ELSE 123)
    \/ at(t) = 121 /\ sem_wait(t, "readersQueue", 123)
    \/ at(t) = 123 /\ sem_post(t, "waitingWritersMutex", 125)
    \/ at(t) = 125 /\ sem_wait(t, "writeLock", 169)

rwLockWriterPrefWriteUnlock(t) ==
    \/ at(t) = 136 /\ sem_wait(t, "waitingWritersMutex", 137)
    \/ at(t) = 137 /\ store(t, "waitingWriters", shared.rw.waitingWriters - 1, 138)
    \/ at(t) = 138 /\ goto(t, IF shared.rw.waitingWriters = 0 THEN 140 ELSE 142)
    \/ at(t) = 140 /\ sem_post(t, "readersQueue", 142)
    \/ at(t) = 142 /\ sem_post(t, "waitingWritersMutex", 144)
    \/ at(t) = 144 /\ sem_post(t, "writeLock", Done)

\* one step of a reader thread, and of a writer thread
reader ==
    /\ policy = "writer-pref"
    /\ \E t \in Readers :
          \/ rwLockWriterPrefReadLock(t)
          \/ at(t) = 153 /\ fprintf(t, "Reading", shared.rw.activeReaders, 100)
          \/ rwLockWriterPrefReadUnlock(t)
    /\ UNCHANGED <<policy, scheduler>>

writer ==
    /\ policy = "writer-pref"
    /\ \E t \in Writers :
          \/ rwLockWriterPrefWriteLock(t)
          \/ at(t) = 169 /\ fprintf(t, "Writing", shared.rw.activeReaders, 136)
          \/ rwLockWriterPrefWriteUnlock(t)
    /\ UNCHANGED <<policy, scheduler>>

\* main: the lock is initialised, then the n readers and the m writers are created
InitWriterPref ==
    /\ policy = "writer-pref"
    /\ NoScheduler
    /\ \E nr \in 1..MaxReaders, nw \in 1..MaxWriters :
          shared = [rw |-> rwLockWriterPrefInit,
                    role |-> [t \in 1..(nr + nw) |-> IF t <= nr THEN "reader" ELSE "writer"],
                    at |-> [t \in 1..(nr + nw) |-> IF t <= nr THEN 61 ELSE 117],
                    file |-> <<>>]

NextWriterPref == reader \/ writer

SpecWriterPref == InitWriterPref /\ [][NextWriterPref]_vars

\* every thread the kernel can run does run in the end
SpecWriterPrefLive == SpecWriterPref /\ WF_vars(NextWriterPref)

(************************ the reader-preference lock ************************)
rwLockReaderPrefInit == [readCount |-> 0, mutex |-> 1, writeLock |-> 1]

\* (a ReadLock whose first reader does not take writeLock)
rwLockReaderPrefReadLock_open(t) ==
    \/ at(t) = 48 /\ sem_wait(t, "mutex", 49)
    \/ at(t) = 49 /\ goto(t, 51)
    \/ at(t) = 51 /\ store(t, "readCount", shared.rw.readCount + 1, 52)
    \/ at(t) = 52 /\ sem_post(t, "mutex", 107)

rwLockReaderPrefReadLock(t) ==
    \/ at(t) = 48 /\ sem_wait(t, "mutex", 49)
    \/ at(t) = 49 /\ goto(t, IF shared.rw.readCount = 0 THEN 50 ELSE 51)
    \/ at(t) = 50 /\ sem_wait(t, "writeLock", 51)
    \/ at(t) = 51 /\ store(t, "readCount", shared.rw.readCount + 1, 52)
    \/ at(t) = 52 /\ sem_post(t, "mutex", 107)

rwLockReaderPrefReadUnlock(t) ==
    \/ at(t) = 63 /\ sem_wait(t, "mutex", 64)
    \/ at(t) = 64 /\ store(t, "readCount", shared.rw.readCount - 1, 65)
    \/ at(t) = 65 /\ goto(t, IF shared.rw.readCount = 0 THEN 66 ELSE 67)
    \/ at(t) = 66 /\ sem_post(t, "writeLock", 67)
    \/ at(t) = 67 /\ sem_post(t, "mutex", Done)

rwLockReaderPrefWriteLock(t) == at(t) = 78 /\ sem_wait(t, "writeLock", 129)

rwLockReaderPrefWriteUnlock(t) == at(t) = 89 /\ sem_post(t, "writeLock", Done)

\* one step of a reader thread, and of a writer thread, of this program
readerReaderPref ==
    /\ policy = "reader-pref"
    /\ \E t \in Readers :
          \/ rwLockReaderPrefReadLock(t)
          \/ at(t) = 107 /\ fprintf(t, "Reading", shared.rw.readCount, 63)
          \/ rwLockReaderPrefReadUnlock(t)
    /\ UNCHANGED <<policy, scheduler>>

writerReaderPref ==
    /\ policy = "reader-pref"
    /\ \E t \in Writers :
          \/ rwLockReaderPrefWriteLock(t)
          \/ at(t) = 129 /\ fprintf(t, "Writing", shared.rw.readCount, 89)
          \/ rwLockReaderPrefWriteUnlock(t)
    /\ UNCHANGED <<policy, scheduler>>

InitReaderPref ==
    /\ policy = "reader-pref"
    /\ NoScheduler
    /\ \E nr \in 1..MaxReaders, nw \in 1..MaxWriters :
          shared = [rw |-> rwLockReaderPrefInit,
                    role |-> [t \in 1..(nr + nw) |-> IF t <= nr THEN "reader" ELSE "writer"],
                    at |-> [t \in 1..(nr + nw) |-> IF t <= nr THEN 48 ELSE 78],
                    file |-> <<>>]

NextReaderPref == readerReaderPref \/ writerReaderPref

SpecReaderPref == InitReaderPref /\ [][NextReaderPref]_vars

(************************* producer and consumer ***************************)
\* the numbers of input-part1.txt before its closing 0
Items == {1, 2}
RECURSIVE SeqsOfLen(_)
SeqsOfLen(k) == IF k = 0 THEN {<<>>} ELSE {Append(s, x) : s \in SeqsOfLen(k - 1), x \in Items}
InputFiles == UNION {{Append(s, 0) : s \in SeqsOfLen(k)} : k \in 0..MaxItems}

buffer == shared.buffer

\* init(&buffer); arr is a global and starts as zeros
initBuffer == [arr |-> [k \in 0..(BUFFER_SIZE - 1) |-> 0], size |-> 0, front |-> 0, rear |-> 0]

\* assert(q->size < BUFFER_SIZE) and assert(q->size > 0) end the program when they fail
enqueueBuffer(q, data) ==
    [arr |-> [q.arr EXCEPT ![q.rear] = data],
     size |-> q.size + 1,
     front |-> q.front,
     rear |-> (q.rear + 1) % BUFFER_SIZE]

\* (a dequeue that leaves front where it is)
dequeueBuffer_stuck(q) == [arr |-> q.arr, size |-> q.size - 1, front |-> q.front, rear |-> q.rear]

dequeueBuffer(q) ==
    [arr |-> q.arr, size |-> q.size - 1, front |-> (q.front + 1) % BUFFER_SIZE, rear |-> q.rear]

\* the for loop of lines 234-242: the slots from front up to rear
RECURSIVE slotsFrom(_, _)
slotsFrom(q, k) == IF k = q.rear THEN <<>> ELSE <<q.arr[k]>> \o slotsFrom(q, (k + 1) % BUFFER_SIZE)

\* Pthread_mutex_lock, Pthread_mutex_unlock, Pthread_cond_wait (which gives up the
\* mutex and sleeps on the condition), its return (awake, the mutex taken again),
\* and Pthread_cond_signal (which wakes the sleeper on the condition, if there is one)
Pthread_mutex_lock(t, l) ==
    /\ shared.lock = "free"
    /\ shared' = [shared EXCEPT !.lock = t, !.at[t] = l]

Pthread_mutex_unlock(t, l) == shared' = [shared EXCEPT !.lock = "free", !.at[t] = l]

Pthread_cond_wait(t, cond, l) ==
    shared' = [shared EXCEPT !.lock = "free", !.asleep[cond] = @ \cup {t}, !.at[t] = l]

Pthread_cond_wait_returns(t, cond, l) ==
    /\ t \notin shared.asleep[cond]
    /\ shared.lock = "free"
    /\ shared' = [shared EXCEPT !.lock = t, !.at[t] = l]

Pthread_cond_signal(t, cond, l) ==
    shared' = [shared EXCEPT !.asleep[cond] = {}, !.at[t] = l]

\* fopen gives NULL for a file that cannot be opened
fopen(t, name, l, lnull) ==
    shared' = [shared EXCEPT !.at[t] = IF name \in shared.unopenable THEN lnull ELSE l]

\* fscanf(file, "%u", &data)
fscanf(t, l) ==
    shared' = [shared EXCEPT !.data = Head(shared.input), !.input = Tail(@), !.at[t] = l]

producer ==
    /\ policy = "producer-consumer" /\ ~shared.aborted
    /\ LET t == "producer" IN
          \/ at(t) = 158 /\ fopen(t, "input-part1.txt", 168, 162)
          \/ at(t) = 162 /\ shared' = [shared EXCEPT !.error = 1, !.at[t] = 163]
          \/ at(t) = 163 /\ Pthread_cond_signal(t, "bufferFilled", Done)
          \/ at(t) = 168 /\ fscanf(t, 171)
          \/ at(t) = 171 /\ Pthread_mutex_lock(t, 172)
          \/ at(t) = 172 /\ goto(t, IF buffer.size = BUFFER_SIZE /\ shared.error = 0
                                    THEN 174 ELSE 176)
          \/ at(t) = 174 /\ Pthread_cond_wait(t, "bufferEmpty", 175)
          \/ at(t) = 175 /\ Pthread_cond_wait_returns(t, "bufferEmpty", 172)
          \/ at(t) = 176 /\ goto(t, IF shared.error = 1 THEN 178 ELSE 181)
          \/ at(t) = 178 /\ Pthread_mutex_unlock(t, 194)
          \/ at(t) = 181 /\ goto(t, IF shared.data = 0 THEN 183 ELSE 188)
          \/ at(t) = 183 /\ shared' = [shared EXCEPT !.done = 1, !.at[t] = 184]
          \/ at(t) = 184 /\ Pthread_cond_signal(t, "bufferFilled", 185)
          \/ at(t) = 185 /\ Pthread_mutex_unlock(t, 194)
          \/ at(t) = 188 /\ IF buffer.size < BUFFER_SIZE
                            THEN shared' = [shared EXCEPT
                                     !.buffer = enqueueBuffer(@, shared.data),
                                     !.produced = Append(@, shared.data),
                                     !.at[t] = 189]
                            ELSE shared' = [shared EXCEPT !.aborted = TRUE]
          \/ at(t) = 189 /\ Pthread_cond_signal(t, "bufferFilled", 190)
          \/ at(t) = 190 /\ Pthread_mutex_unlock(t, 192)
          \/ at(t) = 192 /\ fscanf(t, 171)
          \/ at(t) = 194 /\ goto(t, Done)
    /\ UNCHANGED <<policy, scheduler>>

consumer ==
    /\ policy = "producer-consumer" /\ ~shared.aborted
    /\ LET t == "consumer" IN
          \/ at(t) = 206 /\ fopen(t, "output-part1.txt", 216, 210)
          \/ at(t) = 210 /\ shared' = [shared EXCEPT !.error = 1, !.at[t] = 211]
          \/ at(t) = 211 /\ Pthread_cond_signal(t, "bufferEmpty", Done)
          \/ at(t) = 216 /\ Pthread_mutex_lock(t, 217)
          \/ at(t) = 217 /\ goto(t, IF buffer.size = 0 /\ shared.done = 0 /\ shared.error = 0
                                    THEN 219 ELSE 221)
          \/ at(t) = 219 /\ Pthread_cond_wait(t, "bufferFilled", 220)
          \/ at(t) = 220 /\ Pthread_cond_wait_returns(t, "bufferFilled", 217)
          \/ at(t) = 221 /\ goto(t, IF shared.error = 1 THEN 223 ELSE 226)
          \/ at(t) = 223 /\ Pthread_mutex_unlock(t, 247)
          \/ at(t) = 226 /\ goto(t, IF shared.done = 1 /\ buffer.size = 0 THEN 228 ELSE 231)
          \/ at(t) = 228 /\ Pthread_mutex_unlock(t, 247)
          \/ at(t) = 231 /\ IF buffer.size > 0
                            THEN shared' = [shared EXCEPT
                                     !.buffer = dequeueBuffer(@),
                                     !.file = Append(@, <<buffer.arr[buffer.front],
                                                 slotsFrom(dequeueBuffer(buffer),
                                                           dequeueBuffer(buffer).front)>>),
                                     !.at[t] = 244]
                            ELSE shared' = [shared EXCEPT !.aborted = TRUE]
          \/ at(t) = 244 /\ Pthread_cond_signal(t, "bufferEmpty", 245)
          \/ at(t) = 245 /\ Pthread_mutex_unlock(t, 216)
          \/ at(t) = 247 /\ goto(t, Done)
    /\ UNCHANGED <<policy, scheduler>>

\* pthread_cond_wait may return without a signal
SpuriousWakeup ==
    /\ policy = "producer-consumer" /\ ~shared.aborted
    /\ \E cond \in DOMAIN shared.asleep :
          /\ shared.asleep[cond] # {}
          /\ shared' = [shared EXCEPT !.asleep[cond] = {}]
    /\ UNCHANGED <<policy, scheduler>>

\* main: init(&buffer), then the two threads are created
StartProducerConsumer(cannotOpen) ==
    /\ policy = "producer-consumer"
    /\ NoScheduler
    /\ \E in \in InputFiles :
          shared = [buffer |-> initBuffer, done |-> 0, error |-> 0, lock |-> "free",
                    asleep |-> [cond \in {"bufferEmpty", "bufferFilled"} |-> {}],
                    at |-> [t \in {"producer", "consumer"} |->
                               IF t = "producer" THEN 158 ELSE 206],
                    input |-> in, data |-> 0, unopenable |-> cannotOpen,
                    produced |-> <<>>, file |-> <<>>, aborted |-> FALSE]

InitProducerConsumer == StartProducerConsumer({})

NextProducerConsumer == producer \/ consumer \/ SpuriousWakeup

SpecProducerConsumer == InitProducerConsumer /\ [][NextProducerConsumer]_vars

\* input-part1.txt or output-part1.txt, or both, cannot be opened
InitNoFile ==
    \E cannotOpen \in SUBSET {"input-part1.txt", "output-part1.txt"} :
        cannotOpen # {} /\ StartProducerConsumer(cannotOpen)

\* a thread that can go on now and again does go on
SpecProducerConsumerLive ==
    /\ InitProducerConsumer
    /\ [][NextProducerConsumer]_vars
    /\ SF_vars(producer) /\ SF_vars(consumer)

SpecNoFile ==
    /\ InitNoFile
    /\ [][NextProducerConsumer]_vars
    /\ SF_vars(producer) /\ SF_vars(consumer)

(****************************** the allocator ******************************)
\* sizeof(BlockHeader) where size_t and pointers take 8 bytes; 8 * 1024; 128 * 1024
BLOCK_SIZE == 32
MMAP_THRESHOLD == 8192
MUNMAP_THRESHOLD == 131072
\* 0x9EA759B9 in the 30 bits the model gives a word
HASH_CONST == 514283961
PageSize == 4096

\* where sbrk(0) is when the program starts, and where the kernel puts the first mmap
HeapStart == 4096
MapStart == 1048576

\* the sizes the caller asks for: less than a word, a block that can be split in
\* two, and the least size that goes to mmap
Sizes == {5, 48, 8160}

heap == shared.heap

RECURSIVE xor(_, _)
xor(a, b) ==
    IF a = 0 THEN b
    ELSE IF b = 0 THEN a
    ELSE 2 * xor(a \div 2, b \div 2) + (IF a % 2 = b % 2 THEN 0 ELSE 1)

getHashValue(ptr) == xor(ptr, HASH_CONST)

\* memory with the header h written at address a
written(hd, a, h) == [x \in DOMAIN hd \cup {a} |-> IF x = a THEN h ELSE hd[x]]

\* a loop over the list is followed for at most Fuel(hd) rounds; a loop that
\* needs more never ends, since the list has no more headers than that
Fuel(hd) == 2 * Cardinality(DOMAIN hd) + 2

splitBlock(hd, block, size) ==
    LET newBlock == block + size + BLOCK_SIZE
        hd1 == written(hd, newBlock, [size |-> hd[block].size - size - BLOCK_SIZE,
                                      isFree |-> TRUE,
                                      hashCode |-> getHashValue(newBlock),
                                      next |-> hd[block].next])
    IN  [hd1 EXCEPT ![block].size = size, ![block].next = newBlock]

\* the while loop of coalesceBlocks from temp on: the memory it leaves, or no end
RECURSIVE coalesceFrom(_, _, _)
coalesceFrom(hd, temp, fuel) ==
    IF temp = NULL \/ hd[temp].next = NULL THEN [ends |-> TRUE, header |-> hd]
    ELSE IF fuel = 0 THEN [ends |-> FALSE, header |-> hd]
    ELSE IF temp + hd[temp].size + BLOCK_SIZE = hd[temp].next
         THEN coalesceFrom([hd EXCEPT ![temp].size = @ + hd[hd[temp].next].size + BLOCK_SIZE,
                                      ![temp].next = hd[hd[temp].next].next],
                           temp, fuel - 1)
         ELSE coalesceFrom(hd, hd[temp].next, fuel - 1)

coalesceBlocks(h) ==
    LET c == coalesceFrom(h.header, h.freeList, Fuel(h.header))
    IN  [h EXCEPT !.header = c.header, !.hangs = ~c.ends]

\* the while loop of insertBlock: the block after which the new one goes
RECURSIVE insertAfter(_, _, _, _)
insertAfter(hd, temp, block, fuel) ==
    IF hd[temp].next # NULL /\ hd[temp].next < block
    THEN IF fuel = 0 THEN NULL ELSE insertAfter(hd, hd[temp].next, block, fuel - 1)
    ELSE temp

insertBlock(h, block) ==
    IF h.freeList = NULL THEN [h EXCEPT !.freeList = block]
    ELSE IF block < h.freeList
         THEN [h EXCEPT !.header[block].next = h.freeList, !.freeList = block]
         ELSE LET temp == insertAfter(h.header, h.freeList, block, Fuel(h.header))
              IN  IF temp = NULL THEN [h EXCEPT !.hangs = TRUE]
                  ELSE [h EXCEPT !.header[block].next = h.header[temp].next,
                                 !.header[temp].next = block]

\* mmap gives fresh pages above the ones it gave before; sbrk moves the break
requestLargeMemory(h, size) ==
    LET block == h.mapped
    IN  [heap |-> [h EXCEPT !.header = written(@, block,
                                [size |-> size - BLOCK_SIZE, isFree |-> FALSE,
                                 hashCode |-> getHashValue(block), next |-> NULL]),
                            !.mapped = @ + ((size + PageSize - 1) \div PageSize) * PageSize],
         ret |-> block + BLOCK_SIZE]

requestSmallMemory(h, size) ==
    LET block == h.brk
    IN  [heap |-> [h EXCEPT !.header = written(@, block,
                                [size |-> size - BLOCK_SIZE, isFree |-> FALSE,
                                 hashCode |-> getHashValue(block), next |-> NULL]),
                            !.brk = @ + size],
         ret |-> block + BLOCK_SIZE]

\* the first-fit search of my_malloc: prev and temp when the loop ends
RECURSIVE firstFit(_, _, _, _, _)
firstFit(hd, prev, temp, size, fuel) ==
    IF temp # NULL /\ hd[temp].size < size
    THEN IF fuel = 0 THEN [ends |-> FALSE, prev |-> prev, temp |-> temp]
         ELSE firstFit(hd, temp, hd[temp].next, size, fuel - 1)
    ELSE [ends |-> TRUE, prev |-> prev, temp |-> temp]

my_malloc(h, asked) ==
    IF asked = 0 THEN [heap |-> h, ret |-> NULL]
    ELSE LET size == ((asked + 7) \div 8) * 8
             f == firstFit(h.header, NULL, h.freeList, size, Fuel(h.header))
             temp == f.temp
             hd1 == IF h.header[temp].size >= size + BLOCK_SIZE
                    THEN splitBlock(h.header, temp, size) ELSE h.header
             hd2 == IF f.prev = NULL THEN hd1 ELSE [hd1 EXCEPT ![f.prev].next = hd1[temp].next]
         IN  IF ~f.ends THEN [heap |-> [h EXCEPT !.hangs = TRUE], ret |-> NULL]
             ELSE IF temp # NULL
                  THEN [heap |-> [h EXCEPT !.header = [hd2 EXCEPT ![temp].isFree = FALSE],
                                           !.freeList = IF f.prev = NULL THEN hd1[temp].next
                                                        ELSE @],
                        ret |-> temp + BLOCK_SIZE]
                  ELSE IF size + BLOCK_SIZE >= MMAP_THRESHOLD
                       THEN requestLargeMemory(h, size + BLOCK_SIZE)
                       ELSE requestSmallMemory(h, size + BLOCK_SIZE)

\* munmap takes the pages away: the header is gone with them
my_free(h, ptr) ==
    LET block == ptr - BLOCK_SIZE
        h1 == [h EXCEPT !.header[block].isFree = TRUE]
        h2 == insertBlock(h1, block)
    IN  IF ptr = NULL THEN h
        ELSE IF h.header[block].isFree THEN h
        ELSE IF h.header[block].hashCode # getHashValue(block) THEN h1
        ELSE IF h.header[block].size + BLOCK_SIZE >= MUNMAP_THRESHOLD
             THEN [h1 EXCEPT !.header = [x \in DOMAIN @ \ {block} |-> @[x]]]
        ELSE IF h2.hangs THEN h2
        ELSE coalesceBlocks(h2)

\* the caller: it keeps the pointers it was given and frees each of them once
Call_my_malloc ==
    /\ policy = "allocator" /\ ~heap.hangs /\ shared.calls < MaxHeapCalls
    /\ \E asked \in Sizes :
          LET m == my_malloc(heap, asked)
          IN  shared' = [heap |-> m.heap,
                         live |-> IF m.ret = NULL THEN shared.live
                                  ELSE Append(shared.live,
                                              [ptr |-> m.ret,
                                               size |-> m.heap.header[m.ret - BLOCK_SIZE].size]),
                         calls |-> shared.calls + 1]
    /\ UNCHANGED <<policy, scheduler>>

Call_my_free ==
    /\ policy = "allocator" /\ ~heap.hangs /\ shared.calls < MaxHeapCalls
    /\ \E k \in 0..Len(shared.live) :
          shared' = [heap |-> my_free(heap, IF k = 0 THEN NULL ELSE shared.live[k].ptr),
                     live |-> SelectSeq([j \in 1..Len(shared.live) |->
                                            [shared.live[j] EXCEPT !.ptr = IF j = k THEN NULL ELSE @]],
                                        LAMBDA a : a.ptr # NULL),
                     calls |-> shared.calls + 1]
    /\ UNCHANGED <<policy, scheduler>>

InitAllocator ==
    /\ policy = "allocator"
    /\ NoScheduler
    /\ shared = [heap |-> [freeList |-> NULL, header |-> <<>>, brk |-> HeapStart,
                           mapped |-> MapStart, hangs |-> FALSE],
                 live |-> <<>>, calls |-> 0]

NextAllocator == Call_my_malloc \/ Call_my_free

SpecAllocator == InitAllocator /\ [][NextAllocator]_vars

(***************************** the Optimal cache ****************************)
INF == 1000000000

\* the virtual page numbers of the accesses M[0..N-1]
Pages == 0..2
RECURSIVE Accesses(_)
Accesses(k) == IF k = 0 THEN {<<>>} ELSE {Append(s, v) : s \in Accesses(k - 1), v \in Pages}

\* the first loop of Optimal: the index of the next access to the page of access k
\* (indices from 0, as in the source), INF when there is none
nextOccurrenceOf(M, k) ==
    LET later == {j \in (k + 1)..Len(M) : M[j] = M[k]}
    IN  IF later = {} THEN INF ELSE (CHOOSE j \in later : \A l \in later : j <= l) - 1

\* OptimalCache(capacity): new HeapNode[capacity], every node (0, 0)
OptimalCache(capacity) ==
    [arr |-> [k \in 0..(capacity - 1) |-> [key |-> 0, value |-> 0]],
     capacity |-> capacity, size |-> 0, mp |-> <<>>]

\* mp.erase(v)
erased(mp, v) == [x \in DOMAIN mp \ {v} |-> mp[x]]

\* swap(arr[a], arr[b]); mp[arr[a].value] = a; mp[arr[b].value] = b
swapped(c, a, b) ==
    LET arr1 == [c.arr EXCEPT ![a] = c.arr[b], ![b] = c.arr[a]]
    IN  [c EXCEPT !.arr = arr1,
                  !.mp = written(written(@, arr1[a].value, a), arr1[b].value, b)]

RECURSIVE upHeap(_, _)
upHeap(c, idx) ==
    IF idx > 0 /\ c.arr[(idx - 1) \div 2].key < c.arr[idx].key
    THEN upHeap(swapped(c, (idx - 1) \div 2, idx), (idx - 1) \div 2)
    ELSE c

RECURSIVE downHeap(_, _)
downHeap(c, idx) ==
    LET left == 2 * idx + 1
        right == 2 * idx + 2
        l1 == IF left < c.size /\ c.arr[left].key > c.arr[idx].key THEN left ELSE idx
        largest == IF right < c.size /\ c.arr[right].key > c.arr[l1].key THEN right ELSE l1
    IN  IF 2 * idx + 1 < c.size /\ largest # idx
        THEN downHeap(swapped(c, largest, idx), largest)
        ELSE c

eviceElementFromCache(c) ==
    IF c.size = 0 THEN c
    ELSE LET mp1 == erased(c.mp, c.arr[0].value)
             arr1 == [c.arr EXCEPT ![0] = c.arr[c.size - 1]]
         IN  downHeap([c EXCEPT !.mp = written(mp1, arr1[0].value, 0),
                                !.size = c.size - 1,
                                !.arr = arr1], 0)

checkInCache(c, data) == data \in DOMAIN c.mp

insertElementInCache(c, key, value) ==
    LET c1 == IF c.size = c.capacity THEN eviceElementFromCache(c) ELSE c
        c2 == [c1 EXCEPT !.arr[c1.size] = [key |-> key, value |-> value],
                         !.mp = written(@, value, c1.size)]
    IN  [upHeap(c2, c1.size) EXCEPT !.size = @ + 1]

modifyKey(c, value, key) ==
    IF value \notin DOMAIN c.mp THEN c
    ELSE LET idx == c.mp[value]
         IN  downHeap(upHeap([c EXCEPT !.arr[idx].key = key], idx), idx)

\* the pages in the slots 0..size-1 of the heap
InSlots(c) == {c.arr[k].value : k \in 0..(c.size - 1)}

\* one round of the second loop of Optimal: access i of M
Optimal_Hit ==
    /\ policy = "optimal" /\ shared.i < Len(shared.M)
    /\ LET vpn == shared.M[shared.i + 1]
       IN  /\ checkInCache(shared.cache, vpn)
           /\ shared' = [shared EXCEPT
                            !.cacheHit = @ + 1,
                            !.hits = Append(@, [vpn |-> vpn, held |-> vpn \in InSlots(shared.cache)]),
                            !.cache = modifyKey(@, vpn, nextOccurrenceOf(shared.M, shared.i + 1)),
                            !.i = @ + 1]
    /\ UNCHANGED <<policy, scheduler>>

Optimal_Miss ==
    /\ policy = "optimal" /\ shared.i < Len(shared.M)
    /\ LET vpn == shared.M[shared.i + 1]
       IN  /\ ~checkInCache(shared.cache, vpn)
           /\ shared' = [shared EXCEPT
                            !.cache = insertElementInCache(@, nextOccurrenceOf(shared.M, shared.i + 1), vpn),
                            !.i = @ + 1]
    /\ UNCHANGED <<policy, scheduler>>

\* Optimal(M, N, S, P, K) before its second loop
StartOptimal(capacities) ==
    /\ policy = "optimal"
    /\ NoScheduler
    /\ \E K \in capacities, N \in 0..MaxAccesses : \E M \in Accesses(N) :
          shared = [cache |-> OptimalCache(K), M |-> M, i |-> 0, cacheHit |-> 0, hits |-> <<>>]

InitOptimal == StartOptimal(1..MaxCapacity)

NextOptimal == Optimal_Hit \/ Optimal_Miss

SpecOptimal == InitOptimal /\ [][NextOptimal]_vars

(******************************* properties *******************************)
\* the history of a command, read off the records: the Finished records that carry
\* it, how many they are, and the sum of their bursts
FinishedWith(list, command) ==
    {k \in 1..Len(list) : list[k].finished /\ list[k].command = command}
HistoryCount(list, command) == Cardinality(FinishedWith(list, command))
RECURSIVE HistorySum(_, _, _)
HistorySum(list, command, k) ==
    IF k = 0 THEN 0
    ELSE HistorySum(list, command, k - 1)
         + (IF k \in FinishedWith(list, command) THEN list[k].burst_time ELSE 0)
HistoryAverage(list, command) ==
    HistorySum(list, command, Len(list)) \div HistoryCount(list, command)

\* the estimate the history gives for a command: its average, 1000 without history
HistoryEstimate(list, command) ==
    IF HistoryCount(list, command) = 0 THEN 1000 ELSE HistoryAverage(list, command)

\* the entries of a hash table, each with the bucket and the position it is at
Entries(ht) ==
    UNION {{[cell |-> c, pos |-> j, node |-> ht[c].head[j]] : j \in 1..Len(ht[c].head)} :
              c \in DOMAIN ht}
\* the entries agree with the records: one entry for each command that has a
\* Finished record and for no other, counting the Finished records of the command
EntriesMatch(list, ht) ==
    /\ \A e \in Entries(ht) :
          /\ HistoryCount(list, e.node.command) >= 1
          /\ e.node.num_bursts = HistoryCount(list, e.node.command)
          /\ \A f \in Entries(ht) : f.node.command = e.node.command => f = e
    /\ \A k \in 1..Len(list) :
          list[k].finished => \E e \in Entries(ht) : e.node.command = list[k].command

\* a step that appends a record for a newly arrived line
Arrival == Len(p') = Len(p) + 1 /\ ~Terminal(p'[Len(p')])
\* after the step the arrived record is queued in tier t, once, and in no other tier
ArrivedIn(t) ==
    \A u \in 0..2 :
       Cardinality({j \in 1..Len(MLFQ'[u]) : MLFQ'[u][j] = Len(p')})
          = (IF u = t THEN 1 ELSE 0)

\* C1 as stated: in every policy, every terminal record (Finished or Error) has
\* turnaround = completion - arrival, waiting = turnaround - burst and
\* response = start - arrival, in plain integer arithmetic (no wrap-around), with
\* none of the four durations negative.  A field the code never assigned may
\* hold any value.
C1_AllTerminal ==
    \A k \in 1..Len(p) :
       Terminal(p[k]) =>
          \A s \in Values(p[k].start_time), c \in Values(p[k].completion_time) :
             /\ p[k].turnaround_time = c - p[k].arrival_time
             /\ p[k].waiting_time = p[k].turnaround_time - p[k].burst_time
             /\ p[k].response_time = s - p[k].arrival_time
             /\ p[k].burst_time >= 0 /\ p[k].turnaround_time >= 0
             /\ p[k].waiting_time >= 0 /\ p[k].response_time >= 0

\* C1: in every policy, every Finished record has turnaround = completion - arrival,
\* waiting = turnaround - burst and response = start - arrival, in plain integer
\* arithmetic, with none of the four durations negative; an Error record has
\* response = start - arrival, not negative, and nothing more.
C1_Metrics ==
    \A k \in 1..Len(p) :
       /\ p[k].finished =>
             /\ p[k].turnaround_time = p[k].completion_time - p[k].arrival_time
             /\ p[k].waiting_time = p[k].turnaround_time - p[k].burst_time
             /\ p[k].response_time = p[k].start_time - p[k].arrival_time
             /\ p[k].burst_time >= 0 /\ p[k].turnaround_time >= 0
             /\ p[k].waiting_time >= 0 /\ p[k].response_time >= 0
       /\ p[k].error =>
             /\ p[k].response_time = p[k].start_time - p[k].arrival_time
             /\ p[k].response_time >= 0

\* a Finished record that waited and was not served at once, next to an Error
\* record that ran for a while
C1_Witness ==
    \E j, k \in 1..Len(p) :
       /\ p[j].finished /\ p[j].waiting_time > 0 /\ p[j].response_time > 0
       /\ p[j].burst_time > 0
       /\ p[k].error /\ p[k].burst_time > 0

\* C2: under offline FCFS a record is dispatched, or terminal, only when every
\* record before it in the array is terminal, and the execution span
\* [context_start, context_end] of the earlier record ends no later than the span
\* of the later one begins.
C2_FCFSOrder ==
    policy = "FCFS" =>
       \A j, k \in 1..Len(p) :
          (j < k /\ (p[k].started \/ Terminal(p[k]))) =>
             /\ Terminal(p[j])
             /\ p[j].context_start_time <= p[j].context_end_time
             /\ p[j].context_end_time <= p[k].context_start_time

\* the second record has been dispatched after the first one ran for a while
C2_Witness ==
    /\ policy = "FCFS" /\ Len(p) >= 2
    /\ p[2].started /\ pc = "wait" /\ child[2].st = "running"
    /\ p[1].context_end_time > p[1].context_start_time

\* C3: under offline Round-Robin every visit of the cursor to a terminal record
\* gives it no slice (no record, no child and no time changes) and every visit to
\* a record that is not terminal gives it one slice: it is dispatched if never
\* started and resumed if paused, no other record is touched, and the scheduler
\* sleeps one quantum before it polls; after every visit the cursor has advanced
\* by one index (mod n).  Hence n visits in a row serve each record once.
C3_RRCycle ==
    [][ policy = "RR" =>
          /\ (pc = "loop" /\ Terminal(p[i])) =>
                /\ i' = (i % Len(p)) + 1
                /\ pc' = "loop"
                /\ p' = p /\ child' = child /\ now' = now
          /\ (pc = "loop" /\ ~Terminal(p[i])) =>
                /\ i' = i /\ pc' = "poll"
                /\ p'[i].started /\ p'[i].context_start_time = now
                /\ (~p[i].started => child'[i].st = "running")
                /\ (child[i].st = "stopped" => child'[i].st = "running")
                /\ \A k \in 1..Len(p) : k # i => (p'[k] = p[k] /\ child'[k] = child[k])
          /\ pc = "poll" =>
                /\ i' = (i % Len(p)) + 1
                /\ now' >= now + Quantum[0]
                /\ child'[i].st # "running"
                /\ \A k \in 1..Len(p) : k # i => (p'[k] = p[k] /\ child'[k] = child[k])
      ]_vars

\* a paused record is in its second slice or a later one, while another record is
\* terminal and was stepped over
C3_Witness ==
    /\ policy = "RR" /\ pc = "poll"
    /\ p[i].burst_time > 0 /\ child[i].st = "running"
    /\ \E k \in 1..Len(p) : k # i /\ Terminal(p[k])

\* C4 as stated: an arrival whose command has history average a goes to tier 0 when
\* a <= quantum0, to tier 2 when a > quantum1, to tier 1 when a lies strictly
\* between; an arrival without history goes to tier 1.
C4_AsStated ==
    [][ Arrival =>
          LET command == p'[Len(p')].command
              a == HistoryAverage(p, command)
          IN  IF HistoryCount(p, command) = 0 THEN ArrivedIn(1)
              ELSE /\ a <= Quantum[0] => ArrivedIn(0)
                   /\ a > Quantum[1] => ArrivedIn(2)
                   /\ (Quantum[0] < a /\ a <= Quantum[1]) => ArrivedIn(1)
      ]_vars

\* C4: an arrival whose command has history average a goes to tier 0 when
\* a <= quantum0, to tier 1 when quantum0 < a <= quantum1, and to tier 2 when a is
\* above both quantum0 and quantum1; an arrival without history goes to tier 1.
C4_Classification ==
    [][ Arrival =>
          LET command == p'[Len(p')].command
              a == HistoryAverage(p, command)
          IN  IF HistoryCount(p, command) = 0 THEN ArrivedIn(1)
              ELSE IF a <= Quantum[0] THEN ArrivedIn(0)
              ELSE IF a <= Quantum[1] THEN ArrivedIn(1)
              ELSE ArrivedIn(2)
      ]_vars

\* an arrival whose history average is above quantum1 and not above quantum0 has
\* been classified, into tier 0
C4_Witness ==
    /\ policy = "predictor" /\ pc = "done"
    /\ LET command == p[Len(p)].command IN
       /\ HistoryCount(p, command) >= 2
       /\ HistoryAverage(p, command) > Quantum[1]
       /\ HistoryAverage(p, command) <= Quantum[0]
    /\ MLFQ[0] = <<Len(p)>>

\* C5: in both MLFQ variants, a poll that finds the record of tier t still running
\* pauses it and appends it to tier t + 1 when t < 2 and to tier 2 when t = 2; the
\* other tiers do not change and the record is in none of them.
C5_Demotion ==
    [][ (policy \in {"MLFQ", "OMLFQ"} /\ pc = "poll" /\ pc' = "boost"
         /\ ~Terminal(p'[cur])) =>
          LET target == IF current_queue < 2 THEN current_queue + 1 ELSE 2 IN
          /\ child'[cur].st # "running"
          /\ p'[cur].context_end_time = now'
          /\ MLFQ'[target] = Append(MLFQ[target], cur)
          /\ \A j \in 1..Len(MLFQ[target]) : MLFQ[target][j] # cur
          /\ \A u \in 0..2 : u # target =>
                /\ MLFQ'[u] = MLFQ[u]
                /\ \A j \in 1..Len(MLFQ'[u]) : MLFQ'[u][j] # cur
      ]_vars

\* a record dispatched from tier 2 has been preempted and is back at the end of tier 2
C5_Witness ==
    /\ policy \in {"MLFQ", "OMLFQ"} /\ pc = "boost"
    /\ cur # 0 /\ ~Terminal(p[cur]) /\ child[cur].st = "stopped"
    /\ current_queue = 2
    /\ MLFQ[2] # <<>> /\ MLFQ[2][Len(MLFQ[2])] = cur

\* C6: in both MLFQ variants the boost check moves the records of tier 1 and then
\* those of tier 2, each tier in its order, behind the records of tier 0 and leaves
\* tiers 1 and 2 empty, when now - last_boost_time >= boostTime; otherwise it
\* changes no tier; and last_boost_time changes in no other way, so that two
\* boosts are at least boostTime apart.
C6_Boost ==
    [][ (policy \in {"MLFQ", "OMLFQ"}) =>
          /\ pc = "boost" =>
                IF now - last_boost_time >= boostTime
                THEN /\ MLFQ'[0] = MLFQ[0] \o MLFQ[1] \o MLFQ[2]
                     /\ MLFQ'[1] = <<>> /\ MLFQ'[2] = <<>>
                     /\ last_boost_time' = now
                ELSE MLFQ' = MLFQ /\ last_boost_time' = last_boost_time
          /\ last_boost_time' # last_boost_time =>
                /\ pc = "boost"
                /\ last_boost_time' - last_boost_time >= boostTime
      ]_vars

\* a boost has just moved record 2 from tier 1 and record 1 from tier 2 to tier 0
C6_Witness ==
    /\ policy \in {"MLFQ", "OMLFQ"} /\ pc = "loop"
    /\ last_boost_time = now /\ now > 0
    /\ MLFQ[0] = <<2, 1>> /\ MLFQ[1] = <<>> /\ MLFQ[2] = <<>>
    /\ p[1].burst_time > p[2].burst_time /\ p[2].burst_time > 0

\* C7: in both MLFQ variants a dispatch takes the head of a tier that is not empty
\* while every tier above it is empty, leaves the other tiers as they are, and the
\* scheduler then sleeps the quantum of that tier before it polls.
C7_Dispatch ==
    [][ (policy \in {"MLFQ", "OMLFQ"}) =>
          /\ (pc = "loop" /\ pc' = "poll") =>
                LET t == current_queue' IN
                /\ MLFQ[t] # <<>>
                /\ cur' = Head(MLFQ[t])
                /\ \A u \in 0..2 : u < t => MLFQ[u] = <<>>
                /\ \A u \in 0..2 : MLFQ'[u] = IF u = t THEN Tail(MLFQ[u]) ELSE MLFQ[u]
                /\ p'[cur'].context_start_time = now
                /\ child'[cur'].st \in {"running", "zombie"}
          /\ pc = "poll" =>
                /\ current_queue' = current_queue /\ cur' = cur
                /\ now' - now \in {Quantum[current_queue], Quantum[current_queue] + 1}
      ]_vars

\* a record that ran before is in a slice it was given from tier 2
C7_Witness ==
    /\ policy \in {"MLFQ", "OMLFQ"} /\ pc = "poll"
    /\ current_queue = 2 /\ p[cur].burst_time > 0
    /\ child[cur].st = "running"

\* C8: every dispatch of online SJF takes a record that is not terminal and whose
\* estimate (the average of the bursts of the Finished records with its command,
\* 1000 when there is none) is minimal among the records that are not terminal,
\* and every such record with a lower index has a strictly larger estimate; no
\* other record is started and not terminal then, and the step after a dispatch
\* makes the dispatched record terminal.
C8_SJFSelection ==
    [][ policy = "SJF" =>
          /\ (pc = "loop" /\ pc' = "wait") =>
                /\ i' \in 1..Len(p)
                /\ ~Terminal(p[i']) /\ ~p[i'].started /\ p'[i'].started
                /\ child'[i'].st = "running"
                /\ \A k \in 1..Len(p) :
                      ~Terminal(p[k]) =>
                         /\ HistoryEstimate(p, p[i'].command)
                               <= HistoryEstimate(p, p[k].command)
                         /\ k < i' => HistoryEstimate(p, p[i'].command)
                                         < HistoryEstimate(p, p[k].command)
                /\ \A k \in 1..Len(p) :
                      k # i' => (p'[k] = p[k] /\ (p[k].started => Terminal(p[k])))
          /\ pc = "wait" =>
                /\ pc' = "loop" /\ i' = i
                /\ Terminal(p'[i]) /\ child'[i].st = "reaped"
                /\ \A k \in 1..Len(p) : k # i => p'[k] = p[k]
      ]_vars

\* a record has been dispatched ahead of an earlier arrival that is still waiting
C8_Witness ==
    /\ policy = "SJF" /\ pc = "wait"
    /\ \E k \in 1..Len(p) : k < i /\ ~Terminal(p[k]) /\ ~p[k].started
    /\ HistoryEstimate(p, p[i].command) < 1000

\* C9: the estimate of a command is 1000 while no Finished run of it has been
\* recorded, and after k recorded runs it is the sum of their k bursts divided by
\* k, rounded down (b after one run of burst b, (b1 + b2) div 2 after two).
C9_Estimate ==
    \A command \in PredictorCommands \cup {p[k].command : k \in 1..Len(p)} :
       getExpectedBurstTime(hashTable, command) =
          IF HistoryCount(p, command) = 0 THEN 1000
          ELSE HistorySum(p, command, Len(p)) \div HistoryCount(p, command)

\* a command with several recorded runs whose average is rounded down, while a
\* command of the same bucket has a history of its own
C9_Witness ==
    /\ policy = "predictor"
    /\ \E c, d \in PredictorCommands :
          /\ c # d /\ cellOf(c) = cellOf(d)
          /\ HistoryCount(p, c) >= 2 /\ HistoryCount(p, d) >= 1
          /\ HistorySum(p, c, Len(p)) % HistoryCount(p, c) # 0
          /\ getExpectedBurstTime(hashTable, c) # getExpectedBurstTime(hashTable, d)

\* C10: in both online schedulers, at every point of the run the predictor has an
\* entry for a command exactly when a record with that command is Finished, the
\* count of the entry is the number of those records, a step that ends a record
\* in Error leaves the predictor as it is, and no step removes an entry or lowers
\* its count.
C10_Entries ==
    [][ (policy \in {"SJF", "OMLFQ"}) =>
          /\ EntriesMatch(p, hashTable) /\ EntriesMatch(p', hashTable')
          /\ \A e \in Entries(hashTable) :
                \E f \in Entries(hashTable') :
                   /\ f.node.command = e.node.command
                   /\ f.node.num_bursts >= e.node.num_bursts
          /\ (\E k \in 1..Len(p) : ~p[k].error /\ p'[k].error) => hashTable' = hashTable
      ]_vars

\* a record has ended in Error and its command has no entry, next to a command
\* with two Finished records and an entry that counts them
C10_Witness ==
    /\ policy \in {"SJF", "OMLFQ"}
    /\ \E k \in 1..Len(p) :
          /\ p[k].error /\ p[k].burst_time > 0
          /\ \A e \in Entries(hashTable) : e.node.command # p[k].command
    /\ \E e \in Entries(hashTable) : e.node.num_bursts = 2

\* C11: in every reachable state of every policy, no record is Finished and Error
\* at once, and a record that is Finished or Error has been started.
C11_Flags ==
    \A k \in 1..Len(p) :
       /\ ~(p[k].finished /\ p[k].error)
       /\ (p[k].finished \/ p[k].error) => p[k].started

\* a record marked Finished or Error whose child was never forked
C11_Witness == \E k \in 1..Len(p) : (p[k].finished \/ p[k].error) /\ ~p[k].started

\* the record whose child the scheduler has dispatched and is about to poll or wait for
Current == IF policy \in {"MLFQ", "OMLFQ"} THEN cur ELSE i
\* the step closes a run slice of record k by a preemption
Preempted(k) ==
    /\ pc = "poll" /\ k = Current
    /\ ~Terminal(p'[k])
    /\ p'[k].context_end_time # p[k].context_end_time \/ p'[k].burst_time # p[k].burst_time
\* the step closes a run slice of record k by a successful completion, by an error exit
Completed(k) == ~p[k].finished /\ p'[k].finished
Failing(k) == ~p[k].error /\ p'[k].error
\* the length of the run slice of record k the step closes
SliceLength(k) == p'[k].context_end_time - p[k].context_start_time

Dispatched(k) ==
    /\ pc = "loop" /\ pc' \in {"poll", "wait"}
    /\ k = (IF policy \in {"MLFQ", "OMLFQ"} THEN cur' ELSE i')

\* C13: in all five policies, once a record is Finished or Error no step changes any
\* of its fields (so it stays Finished or Error), no step dispatches or resumes it,
\* and no step pauses, polls or reaps its child.
C13_Immutable ==
    [][\A k \in 1..Len(p) :
          (p[k].finished \/ p[k].error) =>
             /\ p'[k] = p[k]
             /\ child'[k] = child[k]
             /\ ~Dispatched(k)]_vars

\* an Error record and a Finished record left behind while another record is run
C13_Witness ==
    /\ pc \in {"poll", "wait"}
    /\ \E j, k \in 1..Len(p) : p[j].error /\ p[k].finished
    /\ ~(p[Current].finished \/ p[Current].error)

\* the records that are Finished or Error in a list
TerminalIn(list) == {k \in 1..Len(list) : list[k].finished \/ list[k].error}

SliceEnds ==
    /\ pc \in {"poll", "wait"}
    /\ Preempted(Current) \/ Completed(Current) \/ Failing(Current)
\* the event line of the run slice the step ends: the start stamp the dispatch or the
\* resumption set, the end stamp the step sets
SliceLine ==
    [command |-> p[Current].command, start |-> p[Current].context_start_time,
     end |-> p'[Current].context_end_time]

\* C15: a step that ends a run slice (by preemption, completion or error) prints
\* exactly one event line, with the start and end stamps of that slice and
\* start <= end; an event line never starts before the start or the end of the
\* event line printed before it, and has start <= end.
C15_Events ==
    [][/\ SliceEnds =>
             /\ out' = Append(out, SliceLine)
             /\ SliceLine.start <= SliceLine.end
       /\ (out' # out) =>
             /\ Len(out') = Len(out) + 1
             /\ out'[Len(out')].start <= out'[Len(out')].end
             /\ (Len(out) > 0) =>
                   /\ out[Len(out)].start <= out'[Len(out')].start
                   /\ out[Len(out)].end <= out'[Len(out')].start]_vars

\* an event line that starts before the end of the event line printed before it
C15_Witness == \E j \in 2..Len(out) : out[j].start < out[j - 1].end

\* C16: under an online policy, once every line typed so far has been read there is
\* exactly one record for each typed line, and the command of a record is a line
\* without its newline (it holds no newline), also when several lines were
\* available at the same moment.
C16_Ingestion ==
    (policy \in {"SJF", "OMLFQ"} /\ stdin = <<>>) =>
       /\ Len(p) = typed
       /\ \A k \in 1..Len(p) : \A j \in 1..Len(p[k].command) : p[k].command[j] # Newline

\* two lines typed and read, and one record for them, a newline inside its command
C16_Witness ==
    /\ policy \in {"SJF", "OMLFQ"} /\ stdin = <<>>
    /\ typed = 2 /\ Len(p) = 1
    /\ \E j \in 1..Len(p[1].command) : p[1].command[j] = Newline

\* record k is queued in tier t
InTier(Q, k, t) == \E j \in 1..Len(Q[t]) : Q[t][j] = k
\* the step preempts the one record of the scenario for the m-th time
PreemptionNo(m) == pc = "poll" /\ pc' = "boost" /\ ~Terminal(p'[1]) /\ Len(out') = m
\* the step is a boost check that finds the boost due
BoostFires == pc = "boost" /\ last_boost_time' # last_boost_time
\* the running time the child of the scenario needs
ScenarioNeed(w) == WorkOf(p[1].command).need = {w}

\* C17 as stated: under offline MLFQ with quanta 20, 40, 80, boost interval 500 and one
\* record that needs 300 ms, the record is first placed in tier 1, is in tier 2 after
\* its first preemption, and is in tier 0 after a boost that finds it incomplete.
C17_AsStated ==
    /\ ScenarioNeed(300) => InTier(MLFQ, 1, 1)
    /\ [][ScenarioNeed(300) =>
            /\ PreemptionNo(1) => InTier(MLFQ', 1, 2)
            /\ (BoostFires /\ ~Terminal(p[1])) => InTier(MLFQ', 1, 0)]_vars

\* C17: under offline MLFQ with quanta 20, 40, 80, boost interval 500 and one record,
\* the record is first placed in tier 0, is in tier 1 after its first preemption and in
\* tier 2 after its second; a boost fires only at a check 500 ms or more after the
\* scheduler start, and a record it finds incomplete is then in tier 0.  A record
\* that needs 300 ms ends after 300 ms and a few more, in its fifth slice, before any
\* boost has fired.
C17_Tiers ==
    /\ InTier(MLFQ, 1, 0) /\ ~InTier(MLFQ, 1, 1) /\ ~InTier(MLFQ, 1, 2)
    /\ [][/\ PreemptionNo(1) => InTier(MLFQ', 1, 1)
          /\ PreemptionNo(2) => InTier(MLFQ', 1, 2)
          /\ BoostFires => now >= 500
          /\ (pc = "boost" /\ now >= 500 /\ last_boost_time = 0) => BoostFires
          /\ (BoostFires /\ ~Terminal(p[1])) => InTier(MLFQ', 1, 0)
          /\ (ScenarioNeed(300) /\ ~Terminal(p[1]) /\ Terminal(p'[1])) =>
                /\ Len(out') = 5
                /\ p'[1].context_end_time \in 300..310
                /\ last_boost_time' = 0]_vars

\* the record that needs 300 ms is Finished after five slices and no boost
C17_Witness ==
    /\ boostTime = 500 /\ ScenarioNeed(300)
    /\ p[1].finished /\ Len(out) = 5 /\ last_boost_time = 0

\* the running time the child of record k needs, and the three of the claim
RunOf(k) == CHOOSE w \in WorkOf(p[k].command).need : TRUE
ClaimedRuns == Len(p) = 3 /\ RunOf(1) = 50 /\ RunOf(2) = 10 /\ RunOf(3) = 200
\* the records end in the order of their indices
InOrder == \A j, k \in 1..Len(p) : (j < k /\ Terminal(p[k])) => Terminal(p[j])

\* C18 as stated: under FCFS with three records that run for 50, 10 and 200 ms, the
\* records end in the order 1, 2, 3 and the response time recorded for each of them
\* is about 0: less than any of the three execution times.
C18_AsStated ==
    ClaimedRuns =>
       /\ InOrder
       /\ \A k \in 1..3 : Terminal(p[k]) => p[k].response_time < 10

\* C18: under FCFS with three records, the records end in the order 1, 2, 3 and the
\* response time recorded for a record is the time at which it was started, which
\* is the sum of the execution times of its predecessors: 0, 50 and 60 ms for
\* records that run for 50, 10 and 200 ms.
C18_Response ==
    /\ InOrder
    /\ \A k \in 1..Len(p) :
          Terminal(p[k]) =>
             /\ p[k].response_time = p[k].start_time
             /\ p[k].start_time = (IF k = 1 THEN 0 ELSE p[k - 1].context_end_time)
             /\ p[k].context_end_time = p[k].start_time + RunOf(k)
    /\ ClaimedRuns =>
          /\ Terminal(p[1]) => p[1].response_time = 0
          /\ Terminal(p[2]) => p[2].response_time = 50
          /\ Terminal(p[3]) => p[3].response_time = 60

\* the three records of the claim, all Finished, the third with a response time of 60
C18_Witness ==
    /\ policy = "FCFS" /\ ClaimedRuns /\ pc = "done"
    /\ \A k \in 1..3 : p[k].finished
    /\ p[3].response_time = 60

\* the scheduler has returned to its caller
Returned == pc = "done"
\* the records other than k that are not Finished and not Error
OthersLeft(k) == {j \in 1..Len(p) : j # k /\ ~Terminal(p[j])}

\* C19: in every policy a failing waitpid is not fatal: after a waitpid for a record
\* has failed, the scheduler does not return while another record is neither
\* Finished nor Error (it goes on to dispatch or resume those records).
C19_NonFatal ==
    (fault.kind = "wait" /\ Returned) => OthersLeft(fault.rec) = {}

\* the scheduler has returned after a failed waitpid and has left behind a record
\* that it never started
C19_Witness ==
    /\ fault.kind = "wait" /\ Returned
    /\ \E j \in OthersLeft(fault.rec) : ~p[j].started

\* C20: in every policy, after fork has failed for a record the record is skipped:
\* it is not put into a queue again and not dispatched again (it stays unstarted),
\* and the scheduler does not return while another record is neither Finished
\* nor Error.
C20_Skipped ==
    (fault.kind = "fork") =>
       /\ ~p[fault.rec].started
       /\ \A t \in 0..2 : ~InTier(MLFQ, fault.rec, t)
       /\ Returned => OthersLeft(fault.rec) = {}

\* the record for which fork failed has been dispatched again and runs
C20_Witness ==
    /\ fault.kind = "fork"
    /\ p[fault.rec].started /\ child[fault.rec].st = "running"

\* the record of the call is not started, or Finished or Error
NotStartedOrTerminal(r) == r.started = FALSE \/ r.finished \/ r.error

\* C21: pauseProcess and resumeProcess do nothing to a record that is not started or
\* is Finished or Error: neither sends a signal, and a call of either leaves every
\* field of the record, and the child, as they were.
C21_NoOps ==
    /\ (policy = "signals" /\ NotStartedOrTerminal(p[1])) =>
          pauseSignal(p[1]) = "none" /\ resumeSignal(p[1]) = "none"
    /\ [][(policy = "signals" /\ NotStartedOrTerminal(p[1])) =>
             p' = p /\ child' = child]_vars

\* an Error record whose slice end a later call of pauseProcess has moved
C21_Witness ==
    /\ policy = "signals" /\ pc = "paused"
    /\ p[1].error /\ child[1].st = "reaped"
    /\ p[1].context_end_time = 2

\* the step takes record k from running to Error
BecomesError(k) == k \in 1..Len(p) /\ ~p[k].error /\ p'[k].error
\* the policies whose scheduler blocks in waitpid until the child has exited
Blocking == policy \in {"FCFS", "SJF"}

AllTerminal == \A k \in 1..Len(p) : Terminal(p[k])
\* the child of record k has exited and the scheduler has not yet seen it
ExitUnseen(k) == k \in 1..Len(p) /\ child[k].st = "zombie" /\ ~Terminal(p[k])

\* C23: every offline scheduler (FCFS, RR, MLFQ) returns, with all its records
\* Finished or Error, when every child exits after a finite running time and no
\* system call fails.  So no record stays non-terminal forever, also not one whose
\* child has exited without the scheduler seeing it (at the end of its quantum, or
\* between the poll and the stop signal): a later poll records it.
C23_Returns == <>[](Returned /\ AllTerminal)

\* a record that was preempted after its child had exited: the poll saw the child
\* running, the child exited before the stop signal
C23_Witness ==
    /\ policy \in {"RR", "MLFQ"} /\ pc \in {"loop", "boost"}
    /\ \E k \in 1..Len(p) : ExitUnseen(k) /\ p[k].started /\ p[k].context_end_time > 0

\* the place of record k in queue q, 0 when it is not there
RECURSIVE PlaceFrom(_, _, _)
PlaceFrom(q, k, j) == IF j > Len(q) THEN 0 ELSE IF q[j] = k THEN j ELSE PlaceFrom(q, k, j + 1)
Place(q, k) == PlaceFrom(q, k, 1)
\* record k waits in tier 1 or tier 2
WaitsBelow(k) == InTier(MLFQ, k, 1) \/ InTier(MLFQ, k, 2)

\* every dispatch is followed by a boost check; a check that finds boostTime or
\* more elapsed empties tiers 1 and 2 into tier 0; the place of a record in tier 0
\* never grows; a dispatch takes the head of tier 0 while tier 0 is not empty
BoostMechanism ==
    [][/\ pc = "poll" => pc' = "boost"
       /\ (pc = "boost" /\ now - last_boost_time >= boostTime) =>
             /\ MLFQ'[1] = <<>> /\ MLFQ'[2] = <<>>
             /\ \A k \in 1..Len(p) : WaitsBelow(k) => InTier(MLFQ', k, 0)
       /\ \A k \in 1..Len(p) :
             (InTier(MLFQ, k, 0) /\ InTier(MLFQ', k, 0)) =>
                Place(MLFQ'[0], k) <= Place(MLFQ[0], k)
       /\ (pc = "loop" /\ pc' = "poll" /\ MLFQ[0] # <<>>) => cur' = Head(MLFQ[0])]_vars
\* from some moment on every line typed has been read and every record is terminal
AllServed == <>[](stdin = <<>> /\ AllTerminal)

AllocationFailed == fault.kind \in CheckedSites \cup UncheckedSites
C25_Abort ==
    /\ [](AllocationFailed => pc = "done")
    /\ [][AllocationFailed =>
            \A k \in DOMAIN child' :
               child'[k].st = "running" =>
                  k \in DOMAIN child /\ child[k].st \in {"running", "zombie"}]_vars
\* a record is dispatched after the allocation of a queue node or of a predictor
\* entry has failed
C25_Witness ==
    /\ fault.kind \in UncheckedSites
    /\ pc \in {"wait", "poll"}
    /\ \E k \in DOMAIN p : k # fault.rec /\ p[k].start_time > p[fault.rec].start_time
                           /\ child[k].st = "running"


\* C26: a record whose command has no tokens, once its child has been waited for,
\* is Finished and not Error.
NoTokens(r) == parseCommand(r.command) = <<>>
C26_EmptyFinished ==
    \A k \in 1..Len(p) :
       (NoTokens(p[k]) /\ child[k].st = "reaped") => (p[k].finished /\ ~p[k].error)
\* the record of a command without tokens has ended Error, that of a command with
\* tokens Finished
C26_Witness ==
    \E k, j \in 1..Len(p) :
       /\ NoTokens(p[k]) /\ child[k].st = "reaped" /\ p[k].error
       /\ ~NoTokens(p[j]) /\ child[j].st = "reaped" /\ p[j].finished


\* the records of a queue from its head along the next pointers
RECURSIVE walkFrom(_, _, _)
walkFrom(Q, a, fuel) ==
    IF a = NULL \/ fuel = 0 THEN <<>>
    ELSE <<Q.node[a].process>> \o walkFrom(Q, Q.node[a].next, fuel - 1)
Queued(Q) == walkFrom(Q, Q.head, MaxNodes + 2)
\* the arguments of the enqueue calls and the non-NULL results of the dequeue calls
RECURSIVE argsOf(_, _)
argsOf(log, call) ==
    IF log = <<>> THEN <<>>
    ELSE (IF Head(log)[1] = call /\ Head(log)[2] # NULL THEN <<Head(log)[2]>> ELSE <<>>)
            \o argsOf(Tail(log), call)
\* C27: the Queue is a FIFO: the records dequeued so far followed by the records
\* still queued are the records enqueued, in the order of their enqueue calls; size
\* is the number of queued records; head is NULL iff tail is NULL iff size is 0; and
\* dequeue on an empty queue returns NULL and changes nothing.
C27_Fifo ==
    /\ [](policy = "queue" =>
            /\ argsOf(out, "dequeue") \o Queued(MLFQ) = argsOf(out, "enqueue")
            /\ MLFQ.size = Len(Queued(MLFQ))
            /\ (MLFQ.head = NULL) = (MLFQ.tail = NULL)
            /\ (MLFQ.head = NULL) = (MLFQ.size = 0)
            /\ (MLFQ.tail # NULL => MLFQ.node[MLFQ.tail].next = NULL))
    /\ [][(policy = "queue" /\ pc' = "dequeued" /\ MLFQ.size = 0) =>
            (cur' = NULL /\ MLFQ' = MLFQ)]_vars
\* three records were enqueued, two of them dequeued, and one of the six calls was a
\* dequeue that found the queue empty
C27_Witness ==
    /\ policy = "queue"
    /\ Len(argsOf(out, "enqueue")) = 3
    /\ Len(argsOf(out, "dequeue")) = 2
    /\ Len(out) = 6
    /\ MLFQ.size = 1
    /\ argsOf(out, "enqueue")[1] # argsOf(out, "enqueue")[2]


\* the (sum, count) entry of a command, <<>> when it has none
entryOf(ht, d) ==
    LET k == findNode(ht, d)
    IN  IF k = 0 THEN <<>>
        ELSE <<ht[cellOf(d)].head[k].sum_burst_time, ht[cellOf(d)].head[k].num_bursts>>
\* the nodes of a command anywhere in the table, as (bucket, position) pairs
nodesOf(ht, d) ==
    {<<c, k>> \in (DOMAIN ht) \X (1..MaxRuns) : k <= Len(ht[c].head) /\ ht[c].head[k].command = d}
\* C28: updateBurstTime(c, b) changes the entry of c only: the entry and the estimate
\* of every other command, also of one in the same bucket, stay as they were; the
\* bucket of a command is one of 0..2, the update puts the node where the lookup
\* looks, and no command has two nodes.
C28_OnlyThatCommand ==
    /\ [](policy = "predictor" =>
            /\ \A d \in PredictorCommands : cellOf(d) \in 0..2
            /\ DOMAIN hashTable = 0..2
            /\ \A d \in PredictorCommands :
                  nodesOf(hashTable, d) \subseteq {<<cellOf(d), findNode(hashTable, d)>>})
    /\ [][(policy = "predictor" /\ hashTable' # hashTable) =>
            LET c == p'[Len(p')].command
                b == p'[Len(p')].burst_time
            IN  /\ entryOf(hashTable', c) =
                      IF entryOf(hashTable, c) = <<>> THEN <<b, 1>>
                      ELSE <<entryOf(hashTable, c)[1] + b, entryOf(hashTable, c)[2] + 1>>
                /\ \A d \in PredictorCommands \ {c} :
                      /\ entryOf(hashTable', d) = entryOf(hashTable, d)
                      /\ getExpectedBurstTime(hashTable', d) = getExpectedBurstTime(hashTable, d)]_vars
\* "a" and "d" share bucket 2; "a" was recorded first, then "d", then "a" again
\* with a burst that changed its estimate
C28_Witness ==
    /\ policy = "predictor"
    /\ cellOf(<<97>>) = cellOf(<<100>>)
    /\ Len(hashTable[cellOf(<<97>>)].head) = 2
    /\ hashTable[cellOf(<<97>>)].head[2].command = <<97>>
    /\ entryOf(hashTable, <<97>>) = <<3, 2>>
    /\ entryOf(hashTable, <<100>>) = <<0, 1>>


\* C29: in online SJF, whenever the scan is made with remainingProcesses > 0 it
\* finds a record: minIndex is not -1.
C29_ScanFinds ==
    (policy = "SJF" /\ pc = "loop" /\ ~readInputReady(stdin) /\ remaining_processes > 0)
       => selectSJF(p, hashTable) # -1
\* the scan finds nothing although a record that is not terminal exists: its command
\* has an estimate of 1e9 ms or more
C29_Witness ==
    /\ policy = "SJF" /\ pc = "loop" /\ ~readInputReady(stdin)
    /\ remaining_processes > 0
    /\ selectSJF(p, hashTable) = -1
    /\ \E k \in 1..Len(p) :
          ~Terminal(p[k]) /\ getExpectedBurstTime(hashTable, p[k].command) >= MinBurstInit


\* C30: a record is taken into the process table only by a readInput that read at
\* least one new byte, and its command is made of the bytes that were read.
C30_ReadsNewBytes ==
    [][(policy \in {"SJF", "OMLFQ"} /\ Len(p') > Len(p)) =>
          /\ Len(stdin') < Len(stdin)
          /\ p'[Len(p')].command = commandOf(readBuffer(stdin))]_vars
\* one line was typed and read, standard input was closed, and the table has a
\* second record with the command of the first
C30_Witness ==
    /\ policy \in {"SJF", "OMLFQ"}
    /\ typed = 1
    /\ stdin = <<EndOfInput>>
    /\ Len(p) >= 2
    /\ p[2].command = p[1].command
    /\ p[2].arrival_time >= p[1].arrival_time


\* C31: at most one managed child is running at any instant, in every policy; a
\* step that starts or continues a child finds every other child that was started
\* stopped or exited.
RunningNow == {k \in DOMAIN child : child[k].st = "running"}
C31_OneRunning ==
    /\ [](Cardinality(RunningNow) <= 1)
    /\ [][\A k \in DOMAIN child' :
            (child'[k].st = "running" /\ (k \notin DOMAIN child \/ child[k].st # "running")) =>
               \A j \in DOMAIN child \ {k} : child[j].st # "running"]_vars
\* two children run at once: a waitpid has failed while its child ran, and the
\* scheduler has gone on to the next record
C31_Witness ==
    /\ fault.kind = "wait"
    /\ Cardinality(RunningNow) >= 2
    /\ \E k \in RunningNow : k # fault.rec /\ p[k].started


\* the number of times record k is queued in the three tiers together
RECURSIVE timesIn(_, _)
timesIn(q, k) ==
    IF q = <<>> THEN 0 ELSE (IF Head(q) = k THEN 1 ELSE 0) + timesIn(Tail(q), k)
TimesQueued(k) == timesIn(MLFQ[0] \o MLFQ[1] \o MLFQ[2], k)
NonTerminal == {k \in 1..Len(p) : ~Terminal(p[k])}
\* no record is taken out of its queue: the loop is at its top, at the boost check
\* or has returned
BetweenRounds == policy \in {"MLFQ", "OMLFQ"} /\ pc \in {"loop", "boost", "done"}
\* C32: in both MLFQ variants, between scheduling rounds every record that is not
\* terminal is queued exactly once in the three tiers together, no terminal record
\* is queued, and the remaining-process counter is the number of records that are
\* not terminal, which is the sum of the three queue sizes.
C32_Queued ==
    BetweenRounds =>
       /\ \A k \in 1..Len(p) : TimesQueued(k) = IF Terminal(p[k]) THEN 0 ELSE 1
       /\ remaining_processes = Cardinality(NonTerminal)
       /\ remaining_processes = Len(MLFQ[0]) + Len(MLFQ[1]) + Len(MLFQ[2])
\* a preempted record waits in tier 1 or 2 while another record has become terminal
C32_Witness ==
    /\ BetweenRounds
    /\ remaining_processes = 1
    /\ \E k \in NonTerminal : \E t \in TerminalIn(p) :
          /\ InTier(MLFQ, k, 1) \/ InTier(MLFQ, k, 2)
          /\ p[k].burst_time > 0

(* C33: the writer-preference lock is free of deadlock: with n readers and m
   writers that take and release the lock once each, in every interleaving every
   thread returns in the end, so the program ends; in particular no reader holds
   readersQueue and waits for waitingWritersMutex while a writer holds
   waitingWritersMutex and waits for readersQueue. *)
AllReturned == \A t \in Threads : at(t) = Done

C33_Terminates == <>AllReturned

\* the state the claim excludes: the reader took readersQueue at line 65, the writer
\* took waitingWritersMutex at line 117, and each now waits for what the other holds
C33_Witness ==
    /\ policy = "writer-pref"
    /\ \E r \in Readers, w \in Writers : at(r) = 66 /\ at(w) = 121
    /\ shared.rw.readersQueue = 0
    /\ shared.rw.waitingWritersMutex = 0
    /\ ~ENABLED NextWriterPref

(* C34: mutual exclusion of the writer-preference lock.  A writer is inside from
   the return of rwLockWriterPrefWriteLock to its call of WriteUnlock, a reader
   from the return of ReadLock to its call of ReadUnlock.  While a writer is inside,
   no other writer and no reader is inside and activeReaders, which the writer
   prints, is 0; several readers may be inside together, and activeReaders is then
   their number. *)
WritersInside == {t \in Writers : at(t) \in {169, 136}}
ReadersInside == {t \in Readers : at(t) \in {153, 100}}

\* the readers that activeReaders counts: from the increment of line 77 to the
\* decrement of line 101
ReadersCounted == {t \in Readers : at(t) \in {78, 80, 82, 84, 85, 86, 88, 89, 153, 100, 101}}

WriterAlone ==
    WritersInside # {} =>
        /\ Cardinality(WritersInside) = 1
        /\ ReadersInside = {}
        /\ shared.rw.activeReaders = 0

WriterPrinted ==
    \A k \in DOMAIN shared.file : shared.file[k][1] = "Writing" => shared.file[k][3] = 0

\* as the claim states it: activeReaders equals the number of readers inside
C34_Original ==
    policy = "writer-pref" =>
        /\ WriterAlone
        /\ WriterPrinted
        /\ ReadersInside # {} => shared.rw.activeReaders = Cardinality(ReadersInside)

\* as the code has it: activeReaders is at least the number of readers inside, since
\* it also counts a reader between its increment and the return of ReadLock and a
\* reader that entered ReadUnlock and has not decremented yet
C34_Exclusion ==
    policy = "writer-pref" =>
        /\ WriterAlone
        /\ WriterPrinted
        /\ ReadersInside # {} => WritersInside = {}
        /\ shared.rw.activeReaders = Cardinality(ReadersCounted)
        /\ ReadersInside \subseteq ReadersCounted

\* a writer has been inside and printed; now a reader is inside and activeReaders
\* counts a second reader that is not
C34_Witness ==
    /\ policy = "writer-pref"
    /\ \E k \in DOMAIN shared.file : shared.file[k][1] = "Writing"
    /\ Cardinality(ReadersInside) = 1
    /\ shared.rw.activeReaders = 2

(* C35: writer preference.  Once a writer has registered itself as waiting
   (waitingWriters >= 1 and the wait on readersQueue of the first of the waiting
   writers has returned), no reader that has not yet entered completes
   rwLockWriterPrefReadLock until waitingWriters is 0 again: the registered
   writers go first. *)
\* the first waiting writer is past line 121: a writer at line 119 or 121 that
\* made waitingWriters 1 has not got readersQueue yet
Registered ==
    /\ shared.rw.waitingWriters >= 1
    /\ ~(shared.rw.waitingWriters = 1 /\ \E w \in Writers : at(w) \in {119, 121})

\* the readers past line 65 that have not completed ReadLock
ReadersEntering == {t \in Readers : at(t) >= 66 /\ at(t) <= 89}

CompletesReadLock(t) == at(t) = 89 /\ shared'.at[t] = 153

C35_WritersFirst ==
    /\ [](policy = "writer-pref" /\ Registered => ReadersEntering = {})
    /\ [][policy = "writer-pref" =>
            \A t \in Readers : CompletesReadLock(t) => ~Registered]_vars

\* two writers are registered, one of them inside, and a reader that came after them
\* waits at line 65
C35_Witness ==
    /\ policy = "writer-pref"
    /\ Registered
    /\ shared.rw.waitingWriters = 2
    /\ WritersInside # {}
    /\ \E t \in Readers : at(t) = 65

(* C36: mutual exclusion of the reader-preference lock.  In every reachable state
   a writer inside its critical section implies readCount = 0, no reader inside
   and no other writer inside; readers inside imply no writer inside and
   readCount >= the number of readers inside. *)
WritersInsideRP == {t \in Writers : at(t) \in {129, 89}}
ReadersInsideRP == {t \in Readers : at(t) \in {107, 63}}

C36_Exclusion ==
    policy = "reader-pref" =>
        /\ WritersInsideRP # {} =>
              /\ shared.rw.readCount = 0
              /\ ReadersInsideRP = {}
              /\ Cardinality(WritersInsideRP) = 1
        /\ ReadersInsideRP # {} =>
              /\ WritersInsideRP = {}
              /\ shared.rw.readCount >= Cardinality(ReadersInsideRP)

\* two readers are inside together while a writer waits, after another writer was inside
C36_Witness ==
    /\ policy = "reader-pref"
    /\ Cardinality(ReadersInsideRP) = 2
    /\ \E k \in DOMAIN shared.file : shared.file[k][1] = "Writing"
    /\ \E w \in Writers : at(w) = 78

(* C37: the bounded buffer of producer and consumer.  Under every interleaving
   of the two threads 0 <= buffer.size <= BUFFER_SIZE, the assertions of enqueue
   and of dequeue never fail, size is (rear - front) mod BUFFER_SIZE unless the
   buffer is full, and the consumer dequeues every produced value exactly once and
   in the order of production. *)
consumed == [k \in DOMAIN shared.file |-> shared.file[k][1]]

\* the values in the buffer, oldest first
contents(q) == [k \in 1..q.size |-> q.arr[(q.front + k - 1) % BUFFER_SIZE]]

BothReturned == at("producer") = Done /\ at("consumer") = Done

C37_Buffer ==
    policy = "producer-consumer" =>
        /\ 0 <= buffer.size /\ buffer.size <= BUFFER_SIZE
        /\ ~shared.aborted
        /\ buffer.size # BUFFER_SIZE =>
              buffer.size = (buffer.rear - buffer.front + BUFFER_SIZE) % BUFFER_SIZE
        /\ consumed \o contents(buffer) = shared.produced
        /\ BothReturned => consumed = shared.produced /\ shared.input = <<>>

\* the buffer is full again after the consumer took a value out of it, the
\* producer sleeps for room, and rear has wrapped round
C37_Witness ==
    /\ policy = "producer-consumer"
    /\ buffer.size = BUFFER_SIZE
    /\ Len(shared.file) >= 1
    /\ "producer" \in shared.asleep["bufferEmpty"]
    /\ buffer.front # 0

(* C38: producer and consumer end.  In every execution both threads return in
   the end: after the producer has read the closing 0 the consumer takes what is
   left and returns, and when a thread cannot open its file and sets error = 1 the
   other thread is woken and returns; no wake-up is lost. *)
C38_BothReturn == <>BothReturned

\* the wake-up is lost: the producer could not open its file, set error and
\* signalled before the consumer, which had found error = 0, went to sleep
C38_Witness ==
    /\ policy = "producer-consumer"
    /\ shared.error = 1
    /\ at("producer") = Done
    /\ at("consumer") = 220
    /\ "consumer" \in shared.asleep["bufferFilled"]
    /\ ~ENABLED producer /\ ~ENABLED consumer

(* C39: the free list of the allocator.  After any sequence of my_malloc and
   my_free calls every block reachable from freeList is free (not one the caller
   still holds) and occurs once, the list is sorted by address, and no two live
   allocations my_malloc returned overlap. *)
\* the blocks reached from a in at most fuel steps along next
RECURSIVE reach(_, _, _)
reach(hd, a, fuel) ==
    IF a = NULL \/ fuel = 0 THEN <<>> ELSE <<a>> \o reach(hd, hd[a].next, fuel - 1)

FreeBlocks == reach(heap.header, heap.freeList, Fuel(heap.header))

LivePointers == {shared.live[k].ptr : k \in DOMAIN shared.live}

Overlap(x, y) == x.ptr - BLOCK_SIZE < y.ptr + y.size /\ y.ptr - BLOCK_SIZE < x.ptr + x.size

C39_FreeList ==
    policy = "allocator" =>
        /\ ~heap.hangs
        /\ \A k \in DOMAIN FreeBlocks :
              /\ heap.header[FreeBlocks[k]].isFree
              /\ FreeBlocks[k] + BLOCK_SIZE \notin LivePointers
        /\ \A j, k \in DOMAIN FreeBlocks : j < k => FreeBlocks[j] < FreeBlocks[k]
        /\ \A j, k \in DOMAIN shared.live : j # k => ~Overlap(shared.live[j], shared.live[k])

\* my_malloc has handed out a block the caller already holds
C39_Witness ==
    /\ policy = "allocator"
    /\ \E j, k \in DOMAIN shared.live : j # k /\ shared.live[j].ptr = shared.live[k].ptr

(* C40: the Optimal cache is consistent.  For every capacity K >= 1 and every
   sequence of insertElementInCache and modifyKey calls, checkInCache(v) is true
   exactly for the values in the heap slots 0..size-1, size <= K, the index map
   sends each such value to its own slot, and the root holds the greatest key, so
   a page that was evicted is never reported as a hit. *)
C40_Consistent ==
    policy = "optimal" =>
        LET c == shared.cache
        IN  /\ \A v \in Pages : checkInCache(c, v) <=> v \in InSlots(c)
            /\ c.size <= c.capacity
            /\ \A k \in 0..(c.size - 1) : c.mp[c.arr[k].value] = k
            /\ \A k \in 0..(c.size - 1) : c.arr[0].key >= c.arr[k].key
            /\ \A k \in DOMAIN shared.hits : shared.hits[k].held

\* a page that is in no slot of the heap was counted as a hit
C40_Witness ==
    /\ policy = "optimal"
    /\ \E k \in DOMAIN shared.hits : ~shared.hits[k].held

=============================================================================
